---- MODULE Spec2Model ----
(***************************************************************************)
(* A model of the intraday trading bot: the RiskManager ledger             *)
(* (risk_manager.py), the DataHandler tick aggregation (data_handler.py)   *)
(* and the TradingBot decision / order path (trading_bot.py).              *)
(*                                                                         *)
(* Money amounts are exact integers; values that the code computes with a  *)
(* fractional part (stop-loss and take-profit levels, the drawdown) are    *)
(* exact rationals [num, den] with den > 0, so no rounding is modelled.    *)
(*                                                                         *)
(* The specifications share the state: SpecRM drives the RiskManager       *)
(* through open_position / close_position, SpecDH and SpecUR feed the      *)
(* DataHandler with ticks, Spec runs the TradingBot on one thread,         *)
(* SpecMain adds main() with its interrupt handling and the live loop,     *)
(* SpecConc runs the backtest poll loop beside the dummy feed thread,      *)
(* SpecLive runs the live loop with the order submission split from its    *)
(* rate-limit wait, SpecAPI calls the RiskManager the way the tests do,    *)
(* SpecSig runs generate_signals with hooks and a scorer, SpecGap feeds    *)
(* update_realtime after a gap in the history, SpecAI runs the retry loop  *)
(* of AIClient.predict (ai_client.py) and SpecBroker calls send_order and  *)
(* cancel_order of the BrokerAPI (borker_api.py).                          *)
(***************************************************************************)
EXTENDS Integers, Sequences, FiniteSets, TLC

(***************************************************************************)
(* Bounds of the model.                                                    *)
(***************************************************************************)
MaxTrades == 2           \* positions opened over a run (open or closed since)
MaxBotTicks == 2         \* ticks the bot receives over a run
MaxTicks == 2            \* ticks the data handler takes in over a run
MaxFeed == 3             \* ticks update_realtime takes in over a run of SpecUR
MaxRunTicks == 2         \* ticks the bot takes in over a run of SpecMain
MaxConcTicks == 2        \* ticks the dummy feed produces over a run of SpecConc
MaxHooks == 2            \* hooks registered over a run of SpecSig
MaxSigTrades == 1        \* positions opened over a run of SpecSig
MaxOrders == 3           \* SendOrder invocations over a run of SpecBroker

(***************************************************************************)
(* Configuration (the settings object), values of the test fixtures.       *)
(***************************************************************************)
Symbols == {"AAPL", "TEST"}
initial_capital == 1000
target_daily_return_pct == 2
stop_loss_pct == [num |-> 1, den |-> 1]             \* 1.0
take_profit_pct == [num |-> 3, den |-> 2]           \* 1.5
daily_max_loss_pct == 3
atr_stop_multiplier == 1
atr_take_multiplier == 2
ema_long_period == 2
rsi_period == 2
bb_period == 2

\* Prices a tick, and so a bar close, an entry or an exit, can carry.
Prices == {98, 100, 102}
\* Values of the 'atr' column: NaN (window not filled) or a positive range.
NaN == -1
ATRValues == {NaN, 2, 60}
\* Minutes (after the first loaded bar) a tick can fall in, and its second.
TickMinutes == {1, 2, 8}
TickSeconds == {0, 30}

(***************************************************************************)
(* Exact rationals.                                                        *)
(***************************************************************************)
Rat(n, d) == [num |-> n, den |-> d]
RatLeq(a, b) == a.num * b.den <= b.num * a.den
RatLess(a, b) == a.num * b.den < b.num * a.den
RatEq(a, b) == a.num * b.den = b.num * a.den
Max2(a, b) == IF a >= b THEN a ELSE b

VARIABLES
    capital,                \* RiskManager.capital
    available_cash,         \* RiskManager.available_cash
    positions,              \* RiskManager.positions: symbol -> Position
    trade_history,          \* RiskManager.trade_history
    daily_starting_capital, \* RiskManager.daily_starting_capital
    call,                   \* the last mutating RiskManager call and whether it took effect
    data_handler_ref,       \* whether config._data_handler_ref is set
    max_position_pct,       \* config.max_position_pct, an exact fraction
    historical_data,        \* DataHandler.historical_data: symbol -> bars (OHLCV rows)
    atr_column,             \* symbol -> last value of historical_data[symbol]["atr"]
    real_time_buffer,       \* DataHandler.real_time_buffer: symbol -> buckets, insertion order
    last_timestamp,         \* DataHandler.last_timestamp: symbol -> minute or None
    warnings,               \* warnings logged by the last update_realtime call
    ingested,               \* number of ticks update_realtime has taken in
    mode,                   \* TradingBot.mode: "live" or "backtest"
    feed,                   \* the feed thread inside update_realtime: stage, symbol, tick minute
    ai_client,              \* TradingBot.ai_client: "none", or a scorer that "raises" or "answers"
    plugins,                \* TradingBot.plugins: hook name -> hooks in registration order
    trail,                  \* what the last generate_signals call of SpecSig invoked, in order
    predict_frame,          \* AIClient.predict: where the call is, its attempt and backoff
    wire,                   \* what the BrokerAPI has done: SendOrder calls and sleeps, in order
    pc,                     \* where the bot is: run, generate, execute, rate_wait, cleanup,
                            \* handler_cleanup, done
    cur,                    \* the symbol generate_signals / execute_order is called on
    sig,                    \* the result of the last generate_signals call
    loop_at,                \* backtest loop of run(): index of the next symbol to poll
    swept                   \* symbols _final_cleanup has visited

ledger == <<capital, available_cash, positions, trade_history, daily_starting_capital>>
rm_vars == <<capital, available_cash, positions, trade_history,
             daily_starting_capital, call>>
dh_vars == <<historical_data, atr_column, real_time_buffer, last_timestamp, warnings,
            ingested>>
bot_vars == <<mode, feed, ai_client, plugins, trail, predict_frame, wire, pc, cur, sig, loop_at, swept>>
vars == <<capital, available_cash, positions, trade_history, daily_starting_capital,
          call, data_handler_ref, max_position_pct, historical_data, atr_column,
          real_time_buffer, last_timestamp, warnings, ingested,
          mode, feed, ai_client, plugins, trail, predict_frame, wire, pc, cur, sig, loop_at, swept>>

(***************************************************************************)
(* datetime.utcnow() as a logical clock: a reading is later than every     *)
(* close made before it, and an exit stamp is later than the entry stamps  *)
(* taken before it.                                                        *)
(***************************************************************************)
utcnow_at_entry == 2 * Len(trade_history)
utcnow_at_exit == 2 * Len(trade_history) + 1

(***************************************************************************)
(* Position (risk_manager.py).  A symbol absent from the positions dict is *)
(* the record NoPosition.                                                  *)
(***************************************************************************)
NoPosition ==
    [present |-> FALSE, entry_price |-> 0, quantity |-> 0,
     stop_loss_price |-> Rat(0, 1), take_profit_price |-> Rat(0, 1),
     entry_time |-> 0, is_open |-> FALSE]

Position(entry_price, quantity, stop_loss_price, take_profit_price, entry_time) ==
    [present |-> TRUE, entry_price |-> entry_price, quantity |-> quantity,
     stop_loss_price |-> stop_loss_price, take_profit_price |-> take_profit_price,
     entry_time |-> entry_time, is_open |-> TRUE]

check_stop_loss(pos, current_price) ==
    RatLeq(Rat(current_price, 1), pos.stop_loss_price)

check_take_profit(pos, current_price) ==
    RatLeq(pos.take_profit_price, Rat(current_price, 1))

\* "symbol in positions and positions[symbol].is_open"
has_position(symbol) ==
    positions[symbol].present /\ positions[symbol].is_open

(***************************************************************************)
(* RiskManager._get_latest_atr: None (here NaN) without the data handler   *)
(* reference or without bars, else the last value of the 'atr' column.     *)
(***************************************************************************)
get_latest_atr(symbol) ==
    IF ~data_handler_ref THEN NaN
    ELSE IF historical_data[symbol] = <<>> THEN NaN
    ELSE atr_column[symbol]

(***************************************************************************)
(* RiskManager.calculate_position_size: None is NoSize.                    *)
(***************************************************************************)
NoSize == [ok |-> FALSE, qty |-> 0, sl_price |-> Rat(0, 1), tp_price |-> Rat(0, 1)]
Size(qty, sl, tp) == [ok |-> TRUE, qty |-> qty, sl_price |-> sl, tp_price |-> tp]

\* floor(capital * max_position_pct / per_share)
floor_budget(per_share) ==
    (capital * max_position_pct.num) \div (max_position_pct.den * per_share)

\* variant: the cash test refuses a position that takes exactly the cash left
calculate_position_size_cash_geq(symbol, price) ==
    LET atr == get_latest_atr(symbol) IN
    IF atr # NaN /\ atr > 0
    THEN LET dollar_risk_per_share == atr * atr_stop_multiplier
             qty == floor_budget(dollar_risk_per_share)
         IN  IF dollar_risk_per_share <= 0 THEN NoSize
             ELSE IF qty < 1 THEN NoSize
             ELSE IF price * qty >= available_cash THEN NoSize
             ELSE Size(qty, Rat(price - atr * atr_stop_multiplier, 1),
                            Rat(price + atr * atr_take_multiplier, 1))
    ELSE LET qty == floor_budget(price)
         IN  IF qty < 1 THEN NoSize
             ELSE IF price * qty >= available_cash THEN NoSize
             ELSE Size(qty,
                       Rat(price * (100 * stop_loss_pct.den - stop_loss_pct.num),
                           100 * stop_loss_pct.den),
                       Rat(price * (100 * take_profit_pct.den + take_profit_pct.num),
                           100 * take_profit_pct.den))

\* variant: percent mode takes the two percentages as fractions
calculate_position_size_pct_as_fraction(symbol, price) ==
    LET atr == get_latest_atr(symbol) IN
    IF atr # NaN /\ atr > 0
    THEN LET dollar_risk_per_share == atr * atr_stop_multiplier
             qty == floor_budget(dollar_risk_per_share)
         IN  IF dollar_risk_per_share <= 0 THEN NoSize
             ELSE IF qty < 1 THEN NoSize
             ELSE IF price * qty > available_cash THEN NoSize
             ELSE Size(qty, Rat(price - atr * atr_stop_multiplier, 1),
                            Rat(price + atr * atr_take_multiplier, 1))
    ELSE LET qty == floor_budget(price)
         IN  IF qty < 1 THEN NoSize
             ELSE IF price * qty > available_cash THEN NoSize
             ELSE Size(qty,
                       Rat(price * (stop_loss_pct.den - stop_loss_pct.num),
                           stop_loss_pct.den),
                       Rat(price * (take_profit_pct.den + take_profit_pct.num),
                           take_profit_pct.den))

calculate_position_size(symbol, price) ==
    LET atr == get_latest_atr(symbol) IN
    IF atr # NaN /\ atr > 0
    THEN LET dollar_risk_per_share == atr * atr_stop_multiplier
             qty == floor_budget(dollar_risk_per_share)
         IN  IF dollar_risk_per_share <= 0 THEN NoSize
             ELSE IF qty < 1 THEN NoSize
             ELSE IF price * qty > available_cash THEN NoSize
             ELSE Size(qty, Rat(price - atr * atr_stop_multiplier, 1),
                            Rat(price + atr * atr_take_multiplier, 1))
    ELSE LET qty == floor_budget(price)
         IN  IF qty < 1 THEN NoSize
             ELSE IF price * qty > available_cash THEN NoSize
             ELSE Size(qty,
                       Rat(price * (100 * stop_loss_pct.den - stop_loss_pct.num),
                           100 * stop_loss_pct.den),
                       Rat(price * (100 * take_profit_pct.den + take_profit_pct.num),
                           100 * take_profit_pct.den))

(***************************************************************************)
(* RiskManager.get_equity_curve: the starting capital stamped with the     *)
(* first trade's entry time, then equity_after of every trade stamped with *)
(* its exit time, sorted by timestamp.                                     *)
(***************************************************************************)
\* df_eq.sort_values("timestamp"): rows with equal stamps keep their order
RECURSIVE first_raising_from(_, _)
RECURSIVE insert_by_timestamp(_, _, _)
insert_by_timestamp(sorted, rec, k) ==
    IF k = 0 \/ sorted[Max2(k, 1)].timestamp <= rec.timestamp
    THEN SubSeq(sorted, 1, k) \o <<rec>> \o SubSeq(sorted, k + 1, Len(sorted))
    ELSE insert_by_timestamp(sorted, rec, k - 1)

RECURSIVE sort_from(_, _, _)
sort_from(records, i, sorted) ==
    IF i > Len(records) THEN sorted
    ELSE sort_from(records, i + 1, insert_by_timestamp(sorted, records[i], Len(sorted)))

sort_values(records) == sort_from(records, 1, <<>>)

\* variant: the rows are sorted by equity, not by timestamp
get_equity_curve_by_equity ==
    IF trade_history = <<>>
    THEN <<[timestamp |-> utcnow_at_entry, equity |-> daily_starting_capital]>>
    ELSE LET rows == sort_values(
                 <<[timestamp |-> daily_starting_capital,
                    equity |-> daily_starting_capital]>>
                 \o [i \in 1..Len(trade_history) |->
                       [timestamp |-> trade_history[i].equity_after,
                        equity |-> trade_history[i].equity_after]])
         IN  [i \in 1..Len(rows) |->
                [timestamp |-> i, equity |-> rows[i].equity]]

\* the curve get_equity_curve builds from the TradeRecords in history
equity_curve_of(history) ==
    IF history = <<>>
    THEN <<[timestamp |-> utcnow_at_entry, equity |-> daily_starting_capital]>>
    ELSE sort_values(
           <<[timestamp |-> history[1].entry_time,
              equity |-> daily_starting_capital]>>
           \o [i \in 1..Len(history) |->
                 [timestamp |-> history[i].exit_time,
                  equity |-> history[i].equity_after]])

get_equity_curve == equity_curve_of(trade_history)

(***************************************************************************)
(* RiskManager.get_current_drawdown: the maximum over the curve of         *)
(* (cummax - equity) / cummax, as an exact rational.                       *)
(***************************************************************************)
\* pd.Series(equities).cummax()
RECURSIVE cummax_from(_, _, _)
cummax_from(equities, i, acc) ==
    IF i > Len(equities) THEN acc
    ELSE cummax_from(equities, i + 1,
                     Append(acc, IF acc = <<>> THEN equities[i]
                                 ELSE Max2(acc[Len(acc)], equities[i])))

cummax(equities) == cummax_from(equities, 1, <<>>)

\* drawdowns.max()
RECURSIVE rat_max_from(_, _, _)
rat_max_from(rats, i, m) ==
    IF i > Len(rats) THEN m
    ELSE rat_max_from(rats, i + 1, IF RatLess(m, rats[i]) THEN rats[i] ELSE m)

rat_max(rats) == rat_max_from(rats, 2, rats[1])

\* variant: the drawdown of the last point of the curve, not the maximum
drawdown_of_last_point(df_eq) ==
    LET equities == [i \in 1..Len(df_eq) |-> df_eq[i].equity]
        peaks == cummax(equities)
    IN  IF df_eq = <<>> THEN Rat(0, 1)
        ELSE Rat(peaks[Len(peaks)] - equities[Len(equities)], peaks[Len(peaks)])

drawdown_of(df_eq) ==
    LET equities == [i \in 1..Len(df_eq) |-> df_eq[i].equity]
        peaks == cummax(equities)
        drawdowns == [i \in 1..Len(equities) |-> Rat(peaks[i] - equities[i], peaks[i])]
    IN  IF df_eq = <<>> THEN Rat(0, 1) ELSE rat_max(drawdowns)

\* variant: the drawdown of the last point of the curve only
get_current_drawdown_last ==
    LET df_eq == get_equity_curve
        equities == [i \in 1..Len(df_eq) |-> df_eq[i].equity]
        peaks == cummax(equities)
    IN  Rat(peaks[Len(peaks)] - equities[Len(equities)], peaks[Len(peaks)])

get_current_drawdown == drawdown_of(get_equity_curve)

(***************************************************************************)
(* RiskManager.can_open_position                                           *)
(***************************************************************************)
\* variant: the drawdown test is missing
can_open_position_no_drawdown(symbol, price) ==
    LET size_info == calculate_position_size(symbol, price) IN
    IF ~size_info.ok THEN FALSE
    ELSE IF price * size_info.qty * max_position_pct.den
              > capital * max_position_pct.num THEN FALSE
    ELSE TRUE

can_open_position(symbol, price) ==
    LET size_info == calculate_position_size(symbol, price) IN
    IF ~size_info.ok THEN FALSE
    ELSE IF price * size_info.qty * max_position_pct.den
              > capital * max_position_pct.num THEN FALSE
    ELSE IF RatLeq(Rat(daily_max_loss_pct, 100), get_current_drawdown) THEN FALSE
    ELSE TRUE

(***************************************************************************)
(* RiskManager.check_daily_targets: FALSE means stop trading.              *)
(***************************************************************************)
\* variant: the target test is strict
check_daily_targets_strict ==
    LET current_return == Rat(capital - daily_starting_capital, daily_starting_capital) IN
    IF RatLess(Rat(target_daily_return_pct, 100), current_return) THEN FALSE
    ELSE IF RatLeq(Rat(daily_max_loss_pct, 100), get_current_drawdown) THEN FALSE
    ELSE TRUE

check_daily_targets ==
    LET current_return == Rat(capital - daily_starting_capital, daily_starting_capital) IN
    IF RatLeq(Rat(target_daily_return_pct, 100), current_return) THEN FALSE
    ELSE IF RatLeq(Rat(daily_max_loss_pct, 100), get_current_drawdown) THEN FALSE
    ELSE TRUE

(***************************************************************************)
(* RiskManager.open_position / close_position.                             *)
(***************************************************************************)
Call(op, applied) == [op |-> op, applied |-> applied]

\* variant: the cost of the shares is not taken from available_cash
open_position_keeps_cash(symbol, price) ==
    LET size_info == calculate_position_size(symbol, price) IN
    IF ~size_info.ok
    THEN /\ call' = Call("open_position", FALSE)
         /\ UNCHANGED ledger
    ELSE /\ positions' = [positions EXCEPT ![symbol] =
                Position(price, size_info.qty, size_info.sl_price,
                         size_info.tp_price, utcnow_at_entry)]
         /\ call' = Call("open_position", TRUE)
         /\ UNCHANGED <<capital, available_cash, trade_history,
                        daily_starting_capital>>

open_position(symbol, price) ==
    LET size_info == calculate_position_size(symbol, price) IN
    IF ~size_info.ok
    THEN /\ call' = Call("open_position", FALSE)
         /\ UNCHANGED ledger
    ELSE /\ positions' = [positions EXCEPT ![symbol] =
                Position(price, size_info.qty, size_info.sl_price,
                         size_info.tp_price, utcnow_at_entry)]
         /\ available_cash' = available_cash - price * size_info.qty
         /\ call' = Call("open_position", TRUE)
         /\ UNCHANGED <<capital, trade_history, daily_starting_capital>>

\* variant: the close credits the profit, not the proceeds, to available_cash
close_position_credits_profit(symbol, exit_price) ==
    LET pos == positions[symbol] IN
    IF ~pos.present \/ ~pos.is_open
    THEN /\ call' = Call("close_position", FALSE)
         /\ UNCHANGED ledger
    ELSE LET profit == (exit_price - pos.entry_price) * pos.quantity IN
         /\ capital' = capital + profit
         /\ available_cash' = available_cash + profit
         /\ positions' = [positions EXCEPT ![symbol].is_open = FALSE]
         /\ trade_history' = Append(trade_history,
                [symbol |-> symbol, entry_time |-> pos.entry_time,
                 exit_time |-> utcnow_at_exit, entry_price |-> pos.entry_price,
                 exit_price |-> exit_price, quantity |-> pos.quantity,
                 pnl |-> profit, equity_after |-> capital + profit])
         /\ call' = Call("close_position", TRUE)
         /\ UNCHANGED daily_starting_capital

\* variant: a Position already closed is closed again
close_position_ignores_is_open(symbol, exit_price) ==
    LET pos == positions[symbol] IN
    IF ~pos.present
    THEN /\ call' = Call("close_position", FALSE)
         /\ UNCHANGED ledger
    ELSE LET profit == (exit_price - pos.entry_price) * pos.quantity IN
         /\ capital' = capital + profit
         /\ available_cash' = available_cash + exit_price * pos.quantity
         /\ positions' = [positions EXCEPT ![symbol].is_open = FALSE]
         /\ trade_history' = Append(trade_history,
                [symbol |-> symbol, entry_time |-> pos.entry_time,
                 exit_time |-> utcnow_at_exit, entry_price |-> pos.entry_price,
                 exit_price |-> exit_price, quantity |-> pos.quantity,
                 pnl |-> profit, equity_after |-> capital + profit])
         /\ call' = Call("close_position", TRUE)
         /\ UNCHANGED daily_starting_capital

close_position(symbol, exit_price) ==
    LET pos == positions[symbol] IN
    IF ~pos.present \/ ~pos.is_open
    THEN /\ call' = Call("close_position", FALSE)
         /\ UNCHANGED ledger
    ELSE LET profit == (exit_price - pos.entry_price) * pos.quantity IN
         /\ capital' = capital + profit
         /\ available_cash' = available_cash + exit_price * pos.quantity
         /\ positions' = [positions EXCEPT ![symbol].is_open = FALSE]
         /\ trade_history' = Append(trade_history,
                [symbol |-> symbol, entry_time |-> pos.entry_time,
                 exit_time |-> utcnow_at_exit, entry_price |-> pos.entry_price,
                 exit_price |-> exit_price, quantity |-> pos.quantity,
                 pnl |-> profit, equity_after |-> capital + profit])
         /\ call' = Call("close_position", TRUE)
         /\ UNCHANGED daily_starting_capital

(***************************************************************************)
(* DataHandler (data_handler.py).  Times are seconds; a minute timestamp   *)
(* is a multiple of 60.  A tick is [datetime, price, volume]; a bar is     *)
(* [timestamp, open, high, low, close, volume].  real_time_buffer[symbol]  *)
(* is a dict: a sequence of [minute_ts, ticks] in insertion order.         *)
(***************************************************************************)
NoneTs == -1
Minute == 60

floor_to_minute(dt) == dt - (dt % Minute)

RECURSIVE seq_max(_)
seq_max(xs) ==
    IF Len(xs) = 1 THEN xs[1]
    ELSE Max2(seq_max(SubSeq(xs, 1, Len(xs) - 1)), xs[Len(xs)])

RECURSIVE seq_min(_)
seq_min(xs) ==
    IF Len(xs) = 1 THEN xs[1]
    ELSE LET m == seq_min(SubSeq(xs, 1, Len(xs) - 1))
         IN  IF xs[Len(xs)] < m THEN xs[Len(xs)] ELSE m

RECURSIVE seq_sum(_)
seq_sum(xs) ==
    IF xs = <<>> THEN 0
    ELSE seq_sum(SubSeq(xs, 1, Len(xs) - 1)) + xs[Len(xs)]

\* dict lookups on the per-symbol buffer
bucket_index(buff, minute_ts) ==
    IF \E i \in 1..Len(buff) : buff[i].minute_ts = minute_ts
    THEN CHOOSE i \in 1..Len(buff) : buff[i].minute_ts = minute_ts
    ELSE 0

\* buff.pop(minute_ts, []): the bucket's ticks and the dict without the key
bucket_ticks(buff, minute_ts) ==
    IF bucket_index(buff, minute_ts) = 0 THEN <<>>
    ELSE buff[bucket_index(buff, minute_ts)].ticks

\* variant: the bucket is read, not popped
bucket_kept(buff, minute_ts) == buff

bucket_removed(buff, minute_ts) ==
    LET k == bucket_index(buff, minute_ts) IN
    IF k = 0 THEN buff
    ELSE SubSeq(buff, 1, k - 1) \o SubSeq(buff, k + 1, Len(buff))

\* "if minute_ts not in buff: buff[minute_ts] = []; buff[minute_ts].append(tick)"
bucket_appended(buff, minute_ts, tick) ==
    LET k == bucket_index(buff, minute_ts) IN
    IF k = 0 THEN Append(buff, [minute_ts |-> minute_ts, ticks |-> <<tick>>])
    ELSE [buff EXCEPT ![k].ticks = Append(@, tick)]

(***************************************************************************)
(* DataHandler._prune_old_bars: keep the rows at or after                  *)
(* max(index) - 3 * max(ema_long_period, rsi_period, bb_period) minutes.   *)
(***************************************************************************)
min_bars == Max2(Max2(ema_long_period, rsi_period), bb_period)
lookback_minutes == min_bars * 3

RECURSIVE rows_from(_, _)
rows_from(df, cutoff) ==
    IF df = <<>> THEN <<>>
    ELSE LET head == rows_from(SubSeq(df, 1, Len(df) - 1), cutoff)
         IN  IF df[Len(df)].timestamp >= cutoff THEN Append(head, df[Len(df)]) ELSE head

\* variant: a bar exactly lookback_minutes before the latest is discarded too
prune_old_bars_exclusive(df) ==
    IF df = <<>> THEN df
    ELSE LET latest_ts == seq_max([i \in 1..Len(df) |-> df[i].timestamp])
         IN  rows_from(df, latest_ts - lookback_minutes * Minute + 1)

prune_old_bars(df) ==
    IF df = <<>> THEN df
    ELSE LET latest_ts == seq_max([i \in 1..Len(df) |-> df[i].timestamp])
         IN  rows_from(df, latest_ts - lookback_minutes * Minute)

(***************************************************************************)
(* DataHandler._finalize_minute_bar on the state of one symbol,            *)
(* dh = [hist, buff, last_ts, warn, added]; added counts the bars appended.*)
(* The indicator recomputation that ends it is applied by update_realtime. *)
(***************************************************************************)
\* variant: open and close taken from the wrong ends of the bucket
new_bar_reversed(minute_ts, ticks) ==
    [timestamp |-> minute_ts,
     open |-> ticks[Len(ticks)].price,
     high |-> seq_max([i \in 1..Len(ticks) |-> ticks[i].price]),
     low |-> seq_min([i \in 1..Len(ticks) |-> ticks[i].price]),
     close |-> ticks[1].price,
     volume |-> seq_sum([i \in 1..Len(ticks) |-> ticks[i].volume])]

new_bar(minute_ts, ticks) ==
    LET price == [i \in 1..Len(ticks) |-> ticks[i].price]
        volume == [i \in 1..Len(ticks) |-> ticks[i].volume]
    IN  [timestamp |-> minute_ts,
         open |-> price[1],
         high |-> seq_max(price),
         low |-> seq_min(price),
         close |-> price[Len(price)],
         volume |-> seq_sum(volume)]

Abs(x) == IF x < 0 THEN 0 - x ELSE x

\* variant: the gap test only sees gaps of more than three minutes
integrity_warnings_wide_gap(hist) ==
    IF Len(hist) < 2 THEN {}
    ELSE LET latest == hist[Len(hist)]
             prev == hist[Len(hist) - 1]
         IN  (IF latest.timestamp - prev.timestamp > 3 * Minute THEN {"gap"} ELSE {})
             \cup (IF Abs(latest.close - prev.close) * 10 > prev.close
                   THEN {"outlier"} ELSE {})

integrity_warnings(hist) ==
    IF Len(hist) < 2 THEN {}
    ELSE LET latest == hist[Len(hist)]
             prev == hist[Len(hist) - 1]
         IN  (IF latest.timestamp - prev.timestamp > Minute THEN {"gap"} ELSE {})
             \cup (IF Abs(latest.close - prev.close) * 10 > prev.close
                   THEN {"outlier"} ELSE {})

finalize_minute_bar(dh, minute_ts) ==
    LET buffer_for_minute == bucket_ticks(dh.buff, minute_ts)
        popped == bucket_removed(dh.buff, minute_ts)
    IN  IF buffer_for_minute = <<>>
        THEN [dh EXCEPT !.buff = popped, !.warn = @ \cup {"no_ticks"}]
        ELSE LET hist == Append(dh.hist, new_bar(minute_ts, buffer_for_minute))
             IN  [hist |-> prune_old_bars(hist),
                  buff |-> popped,
                  last_ts |-> IF dh.last_ts = NoneTs THEN minute_ts ELSE dh.last_ts,
                  warn |-> dh.warn \cup integrity_warnings(hist),
                  added |-> dh.added + 1]

(***************************************************************************)
(* DataHandler.update_realtime.  to_finalize lists the buffered minutes    *)
(* <= last_ts in the dict's (insertion) order; atr is the last value the   *)
(* indicator library yields for the 'atr' column when bars were appended.  *)
(***************************************************************************)
RECURSIVE finalize_all(_, _)
finalize_all(dh, to_finalize) ==
    IF to_finalize = <<>> THEN dh
    ELSE finalize_all(finalize_minute_bar(dh, to_finalize[1]),
                      SubSeq(to_finalize, 2, Len(to_finalize)))

\* variant: "ts < last_ts", the bucket of the marker's own minute is left behind
RECURSIVE minutes_upto_strict(_, _)
minutes_upto_strict(buff, last_ts) ==
    IF buff = <<>> THEN <<>>
    ELSE LET head == minutes_upto_strict(SubSeq(buff, 1, Len(buff) - 1), last_ts)
         IN  IF buff[Len(buff)].minute_ts < last_ts
             THEN Append(head, buff[Len(buff)].minute_ts) ELSE head

RECURSIVE minutes_upto(_, _)
minutes_upto(buff, last_ts) ==
    IF buff = <<>> THEN <<>>
    ELSE LET head == minutes_upto(SubSeq(buff, 1, Len(buff) - 1), last_ts)
         IN  IF buff[Len(buff)].minute_ts <= last_ts
             THEN Append(head, buff[Len(buff)].minute_ts) ELSE head

realtime_updated(symbol, new_tick) ==
    LET minute_ts == floor_to_minute(new_tick.datetime)
        buff == bucket_appended(real_time_buffer[symbol], minute_ts, new_tick)
        last_ts == last_timestamp[symbol]
        dh0 == [hist |-> historical_data[symbol], buff |-> buff,
                last_ts |-> last_ts, warn |-> {}, added |-> 0]
    IN  IF last_ts # NoneTs /\ minute_ts > last_ts
        THEN [finalize_all(dh0, minutes_upto(buff, last_ts)) EXCEPT !.last_ts = minute_ts]
        ELSE dh0

\* atrs: the values the recomputed ATR column can end with
update_realtime(symbol, new_tick, atrs) ==
    LET dh == realtime_updated(symbol, new_tick) IN
    /\ historical_data' = [historical_data EXCEPT ![symbol] = dh.hist]
    /\ real_time_buffer' = [real_time_buffer EXCEPT ![symbol] = dh.buff]
    /\ last_timestamp' = [last_timestamp EXCEPT ![symbol] = dh.last_ts]
    /\ warnings' = dh.warn
    /\ \E atr \in (IF dh.added > 0 THEN atrs ELSE {atr_column[symbol]}) :
          atr_column' = [atr_column EXCEPT ![symbol] = atr]
    /\ ingested' = ingested + 1

(***************************************************************************)
(* TradingBot.generate_signals.  The indicator columns come from the       *)
(* external indicator library and the AI client; r holds, per trigger      *)
(* pair that the code derives from them, 1 (up / oversold / AI buy),       *)
(* -1 (down / overbought / AI sell) or 0 (neither): the two triggers of a  *)
(* pair exclude each other.  Scores are in tenths.                         *)
(***************************************************************************)
Readings == [ema : {-1, 0, 1}, rsi : {-1, 0, 1}, bb : {-1, 0, 1},
             vwap : {0}, ai : {-1, 0, 1}]

BUY_THRESHOLD == 15
SELL_THRESHOLD == 15

buy_score(r) ==
    (IF r.ema = 1 THEN 10 ELSE 0) + (IF r.rsi = 1 THEN 5 ELSE 0)
    + (IF r.bb = 1 THEN 7 ELSE 0) + (IF r.vwap = 1 THEN 5 ELSE 0)
    + (IF r.ai = 1 THEN 10 ELSE 0)

sell_score(r) ==
    (IF r.ema = -1 THEN 10 ELSE 0) + (IF r.rsi = -1 THEN 5 ELSE 0)
    + (IF r.bb = -1 THEN 7 ELSE 0) + (IF r.vwap = -1 THEN 5 ELSE 0)
    + (IF r.ai = -1 THEN 10 ELSE 0)

\* signal.get("price", 0.0), signal.get("quantity", 0)
Signal(signal, price, quantity) == [signal |-> signal, price |-> price, quantity |-> quantity]
Hold == Signal("HOLD", 0, 0)

\* variant: the history test lets a series one bar short through
generate_signals_one_bar_short(symbol, r) ==
    LET df == historical_data[symbol] IN
    IF df = <<>> \/ Len(df) < min_bars - 1 THEN Hold
    ELSE LET price == df[Len(df)].close
             size_info == calculate_position_size(symbol, price)
             result ==
                 IF buy_score(r) >= BUY_THRESHOLD /\ ~has_position(symbol)
                    /\ can_open_position(symbol, price)
                 THEN IF size_info.ok THEN Signal("BUY", price, size_info.qty) ELSE Hold
                 ELSE IF has_position(symbol) /\ sell_score(r) >= SELL_THRESHOLD
                 THEN Signal("SELL", price, 0)
                 ELSE Hold
         IN  IF has_position(symbol)
             THEN IF check_stop_loss(positions[symbol], price)
                  THEN Signal("SELL_SL", price, 0)
                  ELSE IF check_take_profit(positions[symbol], price)
                  THEN Signal("SELL_TP", price, 0)
                  ELSE result
             ELSE result

\* variant: no stop-loss / take-profit override
generate_signals_no_override(symbol, r) ==
    LET df == historical_data[symbol] IN
    IF df = <<>> \/ Len(df) < min_bars THEN Hold
    ELSE LET price == df[Len(df)].close
             size_info == calculate_position_size(symbol, price)
         IN  IF buy_score(r) >= BUY_THRESHOLD /\ ~has_position(symbol)
                /\ can_open_position(symbol, price)
             THEN IF size_info.ok THEN Signal("BUY", price, size_info.qty) ELSE Hold
             ELSE IF has_position(symbol) /\ sell_score(r) >= SELL_THRESHOLD
             THEN Signal("SELL", price, 0)
             ELSE Hold

\* variant: the BUY branch does not look at has_position
generate_signals_ignores_position(symbol, r) ==
    LET df == historical_data[symbol] IN
    IF df = <<>> \/ Len(df) < min_bars THEN Hold
    ELSE LET price == df[Len(df)].close
             size_info == calculate_position_size(symbol, price)
             result ==
                 IF buy_score(r) >= BUY_THRESHOLD /\ can_open_position(symbol, price)
                 THEN IF size_info.ok THEN Signal("BUY", price, size_info.qty) ELSE Hold
                 ELSE IF has_position(symbol) /\ sell_score(r) >= SELL_THRESHOLD
                 THEN Signal("SELL", price, 0)
                 ELSE Hold
         IN  IF has_position(symbol) /\ result.signal # "BUY"
             THEN IF check_stop_loss(positions[symbol], price)
                  THEN Signal("SELL_SL", price, 0)
                  ELSE IF check_take_profit(positions[symbol], price)
                  THEN Signal("SELL_TP", price, 0)
                  ELSE result
             ELSE result

generate_signals(symbol, r) ==
    LET df == historical_data[symbol] IN
    IF df = <<>> \/ Len(df) < min_bars THEN Hold
    ELSE LET price == df[Len(df)].close
             size_info == calculate_position_size(symbol, price)
             result ==
                 IF buy_score(r) >= BUY_THRESHOLD /\ ~has_position(symbol)
                    /\ can_open_position(symbol, price)
                 THEN IF size_info.ok THEN Signal("BUY", price, size_info.qty) ELSE Hold
                 ELSE IF has_position(symbol) /\ sell_score(r) >= SELL_THRESHOLD
                 THEN Signal("SELL", price, 0)
                 ELSE Hold
         IN  IF has_position(symbol)
             THEN IF check_stop_loss(positions[symbol], price)
                  THEN Signal("SELL_SL", price, 0)
                  ELSE IF check_take_profit(positions[symbol], price)
                  THEN Signal("SELL_TP", price, 0)
                  ELSE result
             ELSE result

(***************************************************************************)
(* BrokerAPI.send_order raises on a non-positive quantity or price and     *)
(* when Kiwoom's SendOrder raises (broker_ok = FALSE); the callers catch   *)
(* the exception and skip the RiskManager call.                            *)
(***************************************************************************)
send_order_succeeds(quantity, price, broker_ok) ==
    quantity > 0 /\ price > 0 /\ broker_ok

no_call ==
    /\ call' = Call("none", FALSE)
    /\ UNCHANGED ledger

\* the except branch around broker.send_order: logged, nothing else
order_failed ==
    /\ call' = Call("send_order", FALSE)
    /\ UNCHANGED ledger

\* variant: in live mode the order is submitted and the ledger is left alone
execute_order_live_sends_only(signal, symbol, broker_ok) ==
    IF mode = "live"
    THEN IF signal.signal \in {"BUY", "SELL", "SELL_SL", "SELL_TP"}
         THEN /\ call' = Call("send_order", broker_ok)
              /\ UNCHANGED ledger
         ELSE no_call
    ELSE IF signal.signal = "BUY"
    THEN open_position(symbol, signal.price)
    ELSE IF signal.signal \in {"SELL", "SELL_SL", "SELL_TP"}
    THEN close_position(symbol, signal.price)
    ELSE no_call

\* variant: the RiskManager is updated whether or not the submission raised
execute_order_ignores_failure(signal, symbol, broker_ok) ==
    IF signal.signal = "BUY"
    THEN open_position(symbol, signal.price)
    ELSE IF signal.signal \in {"SELL", "SELL_SL", "SELL_TP"}
    THEN close_position(symbol, signal.price)
    ELSE no_call

\* TradingBot.execute_order
execute_order(signal, symbol, broker_ok) ==
    IF signal.signal = "BUY"
    THEN IF mode = "live" /\ ~send_order_succeeds(signal.quantity, signal.price, broker_ok)
         THEN order_failed
         ELSE open_position(symbol, signal.price)
    ELSE IF signal.signal \in {"SELL", "SELL_SL", "SELL_TP"}
    THEN IF mode = "live"
            /\ ~send_order_succeeds(positions[symbol].quantity, signal.price, broker_ok)
         THEN order_failed
         ELSE close_position(symbol, signal.price)
    ELSE no_call

\* TradingBot._final_cleanup, the body of its loop for one open Position
final_cleanup_close(symbol, broker_ok) ==
    LET df == historical_data[symbol]
        last_price == IF df # <<>> THEN df[Len(df)].close ELSE 0
    IN  IF mode = "live"
           /\ ~send_order_succeeds(positions[symbol].quantity, last_price, broker_ok)
        THEN order_failed
        ELSE close_position(symbol, last_price)

(***************************************************************************)
(* Initial states.  RiskManager.__init__ and DataHandler.__init__, then    *)
(* update_historical_all: a symbol either has no history (marker None) or  *)
(* the loaded, ascending bars with the marker at the last one.             *)
(***************************************************************************)
Bar(ts, o, h, l, c, v) ==
    [timestamp |-> ts, open |-> o, high |-> h, low |-> l, close |-> c, volume |-> v]

LoadedHistory == <<Bar(0, 100, 100, 100, 100, 1), Bar(Minute, 100, 100, 100, 100, 1)>>

InitRM ==
    /\ capital = initial_capital
    /\ available_cash = initial_capital
    /\ positions = [s \in Symbols |-> NoPosition]
    /\ trade_history = <<>>
    /\ daily_starting_capital = initial_capital
    /\ call = Call("init", FALSE)

InitDH ==
    /\ historical_data \in [Symbols -> {<<>>, LoadedHistory}]
    /\ atr_column \in [Symbols -> ATRValues]
    /\ \A s \in Symbols : historical_data[s] = <<>> => atr_column[s] = NaN
    /\ real_time_buffer = [s \in Symbols |-> <<>>]
    /\ last_timestamp = [s \in Symbols |->
            IF historical_data[s] = <<>> THEN NoneTs
            ELSE historical_data[s][Len(historical_data[s])].timestamp]
    /\ warnings = {}
    /\ ingested = 0

\* the feed thread is not inside update_realtime
FeedIdle == [at |-> "idle", symbol |-> "none", minute |-> NoneTs]

\* no predict call is running
PredictIdle ==
    [at |-> "idle", attempt |-> 0, backoff |-> 0, posted |-> <<>>, slept |-> <<>>,
     result |-> "none"]

\* no hook registered
NoPlugins == [before_signal |-> <<>>, after_signal |-> <<>>]

\* the settings of the test fixtures; the scorer's answer is any reading
InitConfig ==
    /\ max_position_pct = [num |-> 1, den |-> 2]
    /\ ai_client = "answers"
    /\ plugins = NoPlugins
    /\ trail = <<>>
    /\ predict_frame = PredictIdle
    /\ wire = <<>>

InitBot ==
    /\ InitConfig
    /\ mode \in {"live", "backtest"}
    /\ feed = FeedIdle
    /\ pc = "run"
    /\ cur = "none"
    /\ sig = Hold
    /\ loop_at = 1
    /\ swept = {}

(***************************************************************************)
(* SpecRM: the RiskManager driven directly through its public methods.     *)
(***************************************************************************)
trades_started == Len(trade_history) + Cardinality({s \in Symbols : has_position(s)})

RMOpen(symbol, price) ==
    /\ ~has_position(symbol)
    /\ trades_started < MaxTrades
    /\ open_position(symbol, price)
    /\ UNCHANGED <<data_handler_ref, max_position_pct, dh_vars, bot_vars>>

RMClose(symbol, price) ==
    /\ close_position(symbol, price)
    /\ UNCHANGED <<data_handler_ref, max_position_pct, dh_vars, bot_vars>>

\* Every symbol has the loaded history and the RiskManager reads its ATR:
\* AAPL is sized in ATR mode, TEST (no ATR yet) in percent mode.
InitSpecRM ==
    /\ InitRM
    /\ InitDH
    /\ InitBot
    /\ mode = "backtest"
    /\ data_handler_ref = TRUE
    /\ \A s \in Symbols : historical_data[s] = LoadedHistory
    /\ \E a \in ATRValues \ {NaN} :
           atr_column = [s \in Symbols |-> IF s = "AAPL" THEN a ELSE NaN]

NextRM ==
    \/ \E s \in Symbols, p \in Prices : RMOpen(s, p)
    \/ \E s \in Symbols, p \in Prices : RMClose(s, p)

SpecRM == InitSpecRM /\ [][NextRM]_vars

(***************************************************************************)
(* SpecDH: the DataHandler of one symbol fed with ticks in any order, and  *)
(* _finalize_minute_bar called on any minute.  The buffers of the symbols  *)
(* are separate dicts, so one symbol is fed.                               *)
(***************************************************************************)
Tick(dt, price, volume) == [datetime |-> dt, price |-> price, volume |-> volume]

\* ticks of the feed: the volume tells the prices apart in a sum
FeedTicks ==
    {Tick(m * Minute + sec, pv[1], pv[2]) :
        m \in TickMinutes, sec \in TickSeconds, pv \in {<<98, 3>>, <<100, 1>>, <<102, 2>>}}

DHUpdateRealtime(symbol, new_tick) ==
    /\ ingested < MaxTicks
    /\ update_realtime(symbol, new_tick, {NaN, 2})
    /\ UNCHANGED <<rm_vars, data_handler_ref, max_position_pct, bot_vars>>

DHFinalizeMinuteBar(symbol, minute_ts) ==
    LET dh == finalize_minute_bar(
                  [hist |-> historical_data[symbol], buff |-> real_time_buffer[symbol],
                   last_ts |-> last_timestamp[symbol], warn |-> {}, added |-> 0],
                  minute_ts)
    IN  /\ historical_data' = [historical_data EXCEPT ![symbol] = dh.hist]
        /\ real_time_buffer' = [real_time_buffer EXCEPT ![symbol] = dh.buff]
        /\ last_timestamp' = [last_timestamp EXCEPT ![symbol] = dh.last_ts]
        /\ warnings' = dh.warn
        /\ \E atr \in (IF dh.added > 0 THEN {NaN, 2} ELSE {atr_column[symbol]}) :
              atr_column' = [atr_column EXCEPT ![symbol] = atr]
        /\ UNCHANGED <<ingested, rm_vars, data_handler_ref, max_position_pct, bot_vars>>

InitSpecDH ==
    /\ InitRM
    /\ InitDH
    /\ InitBot
    /\ mode = "backtest"
    /\ data_handler_ref = FALSE
    /\ historical_data["AAPL"] = <<>>

NextDH ==
    \/ \E t \in FeedTicks : DHUpdateRealtime("TEST", t)
    \/ \E m \in TickMinutes : DHFinalizeMinuteBar("TEST", m * Minute)

SpecDH == InitSpecDH /\ [][NextDH]_vars

(***************************************************************************)
(* SpecUR: update_realtime alone, on one symbol, from an empty or a loaded *)
(* history: ticks arrive in any order of their minutes and seconds (late,  *)
(* duplicate, out of order).  The few bars are fewer than the ATR window.  *)
(***************************************************************************)
URMinutes == {1, 2, 8, 9}

URTicks ==
    {Tick(m * Minute + sec, pv[1], pv[2]) :
        m \in URMinutes, sec \in TickSeconds, pv \in {<<98, 3>>, <<102, 2>>}}

URUpdateRealtime(symbol, new_tick) ==
    /\ ingested < MaxFeed
    /\ update_realtime(symbol, new_tick, {NaN})
    /\ UNCHANGED <<rm_vars, data_handler_ref, max_position_pct, bot_vars>>

InitSpecUR ==
    /\ InitRM
    /\ InitDH
    /\ InitBot
    /\ mode = "backtest"
    /\ data_handler_ref = FALSE
    /\ historical_data["AAPL"] = <<>>
    /\ atr_column = [s \in Symbols |-> NaN]

NextUR == \E t \in URTicks : URUpdateRealtime("TEST", t)

SpecUR == InitSpecUR /\ [][NextUR]_vars

(***************************************************************************)
(* SpecGap: update_realtime on a feed that resumes three minutes or more   *)
(* after the loaded history (Scenario C) and goes on minute by minute.     *)
(***************************************************************************)
GapMinutes == {4, 5, 6}

GapTicks ==
    {Tick(m * Minute + sec, pv[1], pv[2]) :
        m \in GapMinutes, sec \in TickSeconds, pv \in {<<98, 3>>, <<102, 2>>}}

NextGap == \E t \in GapTicks : URUpdateRealtime("TEST", t)

SpecGap == InitSpecUR /\ [][NextGap]_vars

(***************************************************************************)
(* Spec: the TradingBot on one thread.  run() waits (live) or polls the    *)
(* symbols and checks the daily targets (backtest); ticks arrive between   *)
(* its steps through _on_receive_real_data (live) or the body of the tick  *)
(* feed (backtest), both of which update the data handler and, when the    *)
(* marker equals the tick's minute, generate and execute a signal.         *)
(* The program never sets config._data_handler_ref, and the few bars of a  *)
(* run are fewer than the ATR window, so the 'atr' column stays NaN.       *)
(***************************************************************************)
SymbolList == <<"AAPL", "TEST">>

\* ticks of the run: AAPL falls or rises, TEST rises
BotTicks(symbol) ==
    {Tick(m * Minute, p, 1) : m \in {2, 3}, p \in IF symbol = "AAPL" THEN {98, 102} ELSE {102}}

OnTick(symbol, tick) ==
    /\ pc = "run"
    /\ ingested < MaxBotTicks
    /\ update_realtime(symbol, tick, {NaN})
    /\ IF last_timestamp'[symbol] # NoneTs
          /\ last_timestamp'[symbol] = floor_to_minute(tick.datetime)
       THEN pc' = "generate" /\ cur' = symbol
       ELSE UNCHANGED <<pc, cur>>
    /\ no_call
    /\ UNCHANGED <<data_handler_ref, max_position_pct, mode, feed, ai_client, plugins, trail, predict_frame, wire, sig, loop_at, swept>>

\* run(), backtest: one pass of "for symbol in self.config.symbols"
Poll(k) ==
    /\ pc = "run"
    /\ mode = "backtest"
    /\ loop_at = k
    /\ loop_at' = k + 1
    /\ IF historical_data[SymbolList[k]] = <<>>
       THEN UNCHANGED <<pc, cur>>
       ELSE pc' = "generate" /\ cur' = SymbolList[k]
    /\ no_call
    /\ warnings' = {}
    /\ UNCHANGED <<data_handler_ref, max_position_pct, historical_data, atr_column, real_time_buffer,
                   last_timestamp, ingested, mode, feed, ai_client, plugins, trail, predict_frame, wire, sig, swept>>

\* run(), backtest: "if not check_daily_targets(): break", else sleep and loop
CheckDailyTargets ==
    /\ pc = "run"
    /\ mode = "backtest"
    /\ loop_at = Len(SymbolList) + 1
    /\ IF check_daily_targets
       THEN loop_at' = 1 /\ UNCHANGED pc
       ELSE pc' = "cleanup" /\ UNCHANGED loop_at
    /\ no_call
    /\ warnings' = {}
    /\ UNCHANGED <<data_handler_ref, max_position_pct, historical_data, atr_column, real_time_buffer,
                   last_timestamp, ingested, mode, feed, ai_client, plugins, trail, predict_frame, wire, cur, sig, swept>>

\* run(): is_nyse_close(now) at the top of the loop
MarketClose ==
    /\ pc = "run"
    /\ loop_at = 1
    /\ pc' = "cleanup"
    /\ no_call
    /\ warnings' = {}
    /\ UNCHANGED <<data_handler_ref, max_position_pct, historical_data, atr_column, real_time_buffer,
                   last_timestamp, ingested, mode, feed, ai_client, plugins, trail, predict_frame, wire, cur, sig, loop_at, swept>>

\* the readings a call may see: once MaxTrades positions were opened, only
\* those below the buy threshold
readings_in_bounds ==
    {r \in Readings : trades_started < MaxTrades \/ buy_score(r) < BUY_THRESHOLD}

GenerateSignals ==
    /\ pc = "generate"
    /\ sig' \in {generate_signals(cur, r) : r \in readings_in_bounds}
    /\ IF sig'.signal # "HOLD"
       THEN pc' = "execute" /\ UNCHANGED cur
       ELSE pc' = "run" /\ cur' = "none"
    /\ no_call
    /\ warnings' = {}
    /\ UNCHANGED <<data_handler_ref, max_position_pct, historical_data, atr_column, real_time_buffer,
                   last_timestamp, ingested, mode, feed, ai_client, plugins, trail, predict_frame, wire, loop_at, swept>>

ExecuteOrder(broker_ok) ==
    /\ pc = "execute"
    /\ execute_order(sig, cur, broker_ok)
    /\ pc' = "run"
    /\ cur' = "none"
    /\ sig' = Hold
    /\ warnings' = {}
    /\ UNCHANGED <<data_handler_ref, max_position_pct, historical_data, atr_column, real_time_buffer,
                   last_timestamp, ingested, mode, feed, ai_client, plugins, trail, predict_frame, wire, loop_at, swept>>

\* _final_cleanup is running: called at the end of run() ("cleanup") or by an
\* except branch of main() ("handler_cleanup")
sweeping == pc \in {"cleanup", "handler_cleanup"}

\* _final_cleanup visits the Positions of the dict once each
CleanupClose(symbol, broker_ok) ==
    /\ sweeping
    /\ symbol \notin swept
    /\ has_position(symbol)
    /\ final_cleanup_close(symbol, broker_ok)
    /\ swept' = swept \cup {symbol}
    /\ warnings' = {}
    /\ UNCHANGED <<data_handler_ref, max_position_pct, historical_data, atr_column, real_time_buffer,
                   last_timestamp, ingested, mode, feed, ai_client, plugins, trail, predict_frame, wire, pc, cur, sig, loop_at>>

CleanupEnd ==
    /\ sweeping
    /\ \A s \in Symbols : s \in swept \/ ~has_position(s)
    /\ pc' = "done"
    /\ no_call
    /\ warnings' = {}
    /\ UNCHANGED <<data_handler_ref, max_position_pct, historical_data, atr_column, real_time_buffer,
                   last_timestamp, ingested, mode, feed, ai_client, plugins, trail, predict_frame, wire, cur, sig, loop_at, swept>>

Init ==
    /\ InitRM
    /\ InitDH
    /\ InitBot
    /\ data_handler_ref = FALSE
    /\ atr_column = [s \in Symbols |-> NaN]
    /\ historical_data["AAPL"] = LoadedHistory

Next ==
    \/ \E s \in Symbols : \E t \in BotTicks(s) : OnTick(s, t)
    \/ \E k \in 1..Len(SymbolList) : Poll(k)
    \/ CheckDailyTargets
    \/ MarketClose
    \/ GenerateSignals
    \/ \E ok \in BOOLEAN : ExecuteOrder(ok)
    \/ \E s \in Symbols, ok \in BOOLEAN : CleanupClose(s, ok)
    \/ CleanupEnd

Spec == Init /\ [][Next]_vars

(***************************************************************************)
(* SpecMain: main() around run().  The live loop sleeps between its        *)
(* market-close checks (loop_at = 2 while asleep); a KeyboardInterrupt or  *)
(* an unexpected exception leaves run() at any point and reaches the       *)
(* except branches of main(), which call _final_cleanup; one raised there  *)
(* is not caught.  AAPL is bought at the loaded close of 100 and sold at   *)
(* 94 (the daily loss limit) or at 104 (the daily target).                 *)
(***************************************************************************)
RunTicks == {Tick(m * Minute, p, 1) : m \in {2, 3}, p \in {94, 104}}

RunOnTick(symbol, tick) ==
    /\ pc = "run"
    /\ ingested < MaxRunTicks
    /\ update_realtime(symbol, tick, {NaN})
    /\ IF last_timestamp'[symbol] # NoneTs
          /\ last_timestamp'[symbol] = floor_to_minute(tick.datetime)
       THEN pc' = "generate" /\ cur' = symbol
       ELSE UNCHANGED <<pc, cur>>
    /\ no_call
    /\ UNCHANGED <<data_handler_ref, max_position_pct, mode, feed, ai_client, plugins, trail, predict_frame, wire, sig, loop_at, swept>>

\* run(), live: "time.sleep(30)" after a market-close check that did not break
LiveSleep ==
    /\ pc = "run"
    /\ mode = "live"
    /\ loop_at = 1
    /\ loop_at' = 2
    /\ no_call
    /\ warnings' = {}
    /\ UNCHANGED <<data_handler_ref, max_position_pct, historical_data, atr_column, real_time_buffer,
                   last_timestamp, ingested, mode, feed, ai_client, plugins, trail, predict_frame, wire, pc, cur, sig, swept>>

\* run(), live: the sleep is over, back to "while True"
LiveWake ==
    /\ pc = "run"
    /\ mode = "live"
    /\ loop_at = 2
    /\ loop_at' = 1
    /\ no_call
    /\ warnings' = {}
    /\ UNCHANGED <<data_handler_ref, max_position_pct, historical_data, atr_column, real_time_buffer,
                   last_timestamp, ingested, mode, feed, ai_client, plugins, trail, predict_frame, wire, pc, cur, sig, swept>>

\* variant: main() returns on an exception without calling _final_cleanup
main_except_exits(at) == "done"

\* main(): where an exception raised at the position "at" takes the process
main_except(at) == IF at = "handler_cleanup" THEN "done" ELSE "handler_cleanup"

\* KeyboardInterrupt or an unexpected exception, anywhere after run() began
Interrupt ==
    /\ pc # "done"
    /\ pc' = main_except(pc)
    /\ cur' = "none"
    /\ sig' = Hold
    /\ swept' = {}
    /\ no_call
    /\ warnings' = {}
    /\ UNCHANGED <<data_handler_ref, max_position_pct, historical_data, atr_column, real_time_buffer,
                   last_timestamp, ingested, mode, feed, ai_client, plugins, trail, predict_frame, wire, loop_at>>

InitSpecMain ==
    /\ Init
    /\ historical_data["TEST"] = <<>>

NextMain ==
    \/ \E t \in RunTicks : RunOnTick("AAPL", t)
    \/ \E k \in 1..Len(SymbolList) : Poll(k)
    \/ CheckDailyTargets
    \/ MarketClose
    \/ LiveSleep
    \/ LiveWake
    \/ GenerateSignals
    \/ \E ok \in BOOLEAN : ExecuteOrder(ok)
    \/ \E s \in Symbols, ok \in BOOLEAN : CleanupClose(s, ok)
    \/ CleanupEnd
    \/ Interrupt

SpecMain == InitSpecMain /\ [][NextMain]_vars

(***************************************************************************)
(* SpecConc: backtest mode with its two threads.  The poll loop of run()   *)
(* takes the steps of Spec; the daemon thread of fetch_realtime_ticks      *)
(* calls update_realtime, whose _finalize_minute_bar assigns               *)
(* historical_data[symbol] three times (the concatenation, the pruned      *)
(* frame, the frame with recomputed indicators).  No lock is held, so the  *)
(* poll loop can run between any two of them.  The feed's clock does not   *)
(* go back; its own generate_signals / execute_order call is one step.     *)
(***************************************************************************)
ConcTicks == {Tick(m * Minute, 98, 1) : m \in {1, 2}}

\* _dummy_tick_feed: "if last_ts and last_ts == minute: generate & execute"
feed_trade(symbol) ==
    \E sg \in {generate_signals(symbol, r) : r \in readings_in_bounds} :
        execute_order(sg, symbol, TRUE)

\* update_realtime up to "to_finalize = [...]"; without a minute to finalize,
\* the rest of the feed's pass for the symbol as well
FeedBuffer(symbol, tick) ==
    LET minute_ts == floor_to_minute(tick.datetime)
        buff == bucket_appended(real_time_buffer[symbol], minute_ts, tick)
        last_ts == last_timestamp[symbol]
    IN  /\ feed.at = "idle"
        /\ pc # "done"
        /\ ingested < MaxConcTicks
        /\ last_ts # NoneTs => minute_ts >= last_ts
        /\ ingested' = ingested + 1
        /\ real_time_buffer' = [real_time_buffer EXCEPT ![symbol] = buff]
        /\ warnings' = {}
        /\ IF last_ts # NoneTs /\ minute_ts > last_ts /\ minutes_upto(buff, last_ts) # <<>>
           THEN /\ feed' = [at |-> "finalize", symbol |-> symbol, minute |-> minute_ts]
                /\ no_call
                /\ UNCHANGED last_timestamp
           ELSE /\ feed' = FeedIdle
                /\ last_timestamp' =
                       IF last_ts # NoneTs /\ minute_ts > last_ts
                       THEN [last_timestamp EXCEPT ![symbol] = minute_ts]
                       ELSE last_timestamp
                /\ IF last_timestamp'[symbol] = minute_ts
                   THEN feed_trade(symbol)
                   ELSE no_call
        /\ UNCHANGED <<data_handler_ref, max_position_pct, historical_data, atr_column,
                       mode, ai_client, plugins, trail, predict_frame, wire, pc, cur, sig, loop_at, swept>>

\* _finalize_minute_bar: pop the bucket, build the bar,
\* "historical_data[symbol] = pd.concat([...])", integrity checks
FeedAppend ==
    LET symbol == feed.symbol
        minute_ts == minutes_upto(real_time_buffer[symbol], last_timestamp[symbol])[1]
        hist == Append(historical_data[symbol],
                       new_bar(minute_ts, bucket_ticks(real_time_buffer[symbol], minute_ts)))
    IN  /\ feed.at = "finalize"
        /\ real_time_buffer' =
               [real_time_buffer EXCEPT ![symbol] = bucket_removed(@, minute_ts)]
        /\ historical_data' = [historical_data EXCEPT ![symbol] = hist]
        /\ warnings' = integrity_warnings(hist)
        /\ feed' = [feed EXCEPT !.at = "appended"]
        /\ no_call
        /\ UNCHANGED <<data_handler_ref, max_position_pct, atr_column, last_timestamp, ingested,
                       mode, ai_client, plugins, trail, predict_frame, wire, pc, cur, sig, loop_at, swept>>

\* _finalize_minute_bar: "self._prune_old_bars(symbol)"
FeedPrune ==
    /\ feed.at = "appended"
    /\ historical_data' =
           [historical_data EXCEPT ![feed.symbol] = prune_old_bars(@)]
    /\ feed' = [feed EXCEPT !.at = "pruned"]
    /\ no_call
    /\ warnings' = {}
    /\ UNCHANGED <<data_handler_ref, max_position_pct, atr_column, real_time_buffer, last_timestamp,
                   ingested, mode, ai_client, plugins, trail, predict_frame, wire, pc, cur, sig, loop_at, swept>>

\* _finalize_minute_bar: "historical_data[symbol] = df_ind"; after the last
\* minute to finalize, the marker and the feed's own decision
FeedIndicators ==
    LET symbol == feed.symbol IN
    /\ feed.at = "pruned"
    /\ atr_column' = [atr_column EXCEPT ![symbol] = NaN]
    /\ warnings' = {}
    /\ IF minutes_upto(real_time_buffer[symbol], last_timestamp[symbol]) # <<>>
       THEN /\ feed' = [feed EXCEPT !.at = "finalize"]
            /\ no_call
            /\ UNCHANGED last_timestamp
       ELSE /\ feed' = FeedIdle
            /\ last_timestamp' = [last_timestamp EXCEPT ![symbol] = feed.minute]
            /\ feed_trade(symbol)
    /\ UNCHANGED <<data_handler_ref, max_position_pct, historical_data, real_time_buffer, ingested,
                   mode, ai_client, plugins, trail, predict_frame, wire, pc, cur, sig, loop_at, swept>>

InitSpecConc ==
    /\ Init
    /\ mode = "backtest"
    /\ historical_data["TEST"] = <<>>

NextConc ==
    \/ \E s \in Symbols : \E t \in ConcTicks : FeedBuffer(s, t)
    \/ FeedAppend
    \/ FeedPrune
    \/ FeedIndicators
    \/ \E k \in 1..Len(SymbolList) : Poll(k)
    \/ CheckDailyTargets
    \/ MarketClose
    \/ GenerateSignals
    \/ \E ok \in BOOLEAN : ExecuteOrder(ok)
    \/ \E s \in Symbols, ok \in BOOLEAN : CleanupClose(s, ok)
    \/ CleanupEnd

SpecConc == InitSpecConc /\ [][NextConc]_vars

(***************************************************************************)
(* SpecLive: the live bot with execute_order in the steps it takes inside  *)
(* the tick callback.  _on_receive_real_data calls generate_signals and    *)
(* execute_order itself; execute_order calls broker.send_order, which      *)
(* after an acknowledged SendOrder sleeps rate_limit_sec before it         *)
(* returns, and only then the RiskManager is updated.  Kiwoom delivers one *)
(* tick at a time: the next one is taken when the callback has returned    *)
(* (pc = "run").  The submission is taken as made with HogaType.LIMIT; the *)
(* calls in trading_bot.py pass the string "LIMIT", whose missing .value   *)
(* makes send_order raise before SendOrder is reached.                     *)
(***************************************************************************)
\* execute_order, live, up to the end of kiwoom.SendOrder inside send_order
SubmitOrder(broker_ok) ==
    /\ pc = "execute"
    /\ mode = "live"
    /\ IF send_order_succeeds(IF sig.signal = "BUY" THEN sig.quantity
                              ELSE positions[cur].quantity,
                              sig.price, broker_ok)
       THEN /\ pc' = "rate_wait"
            /\ call' = Call("send_order", TRUE)
            /\ UNCHANGED <<ledger, cur, sig>>
       ELSE /\ pc' = "run"
            /\ cur' = "none"
            /\ sig' = Hold
            /\ order_failed
    /\ warnings' = {}
    /\ UNCHANGED <<data_handler_ref, max_position_pct, historical_data, atr_column, real_time_buffer,
                   last_timestamp, ingested, mode, feed, ai_client, plugins, trail, predict_frame, wire, loop_at, swept>>

\* send_order: "time.sleep(self.rate_limit_sec)" is over; execute_order goes
\* on to the RiskManager and the callback returns
RateLimitWait ==
    /\ pc = "rate_wait"
    /\ IF sig.signal = "BUY"
       THEN open_position(cur, sig.price)
       ELSE close_position(cur, sig.price)
    /\ pc' = "run"
    /\ cur' = "none"
    /\ sig' = Hold
    /\ warnings' = {}
    /\ UNCHANGED <<data_handler_ref, max_position_pct, historical_data, atr_column, real_time_buffer,
                   last_timestamp, ingested, mode, feed, ai_client, plugins, trail, predict_frame, wire, loop_at, swept>>

InitSpecLive ==
    /\ Init
    /\ mode = "live"
    /\ historical_data["TEST"] = <<>>

NextLive ==
    \/ \E t \in RunTicks : RunOnTick("AAPL", t)
    \/ GenerateSignals
    \/ \E ok \in BOOLEAN : SubmitOrder(ok)
    \/ RateLimitWait
    \/ MarketClose
    \/ LiveSleep
    \/ LiveWake
    \/ \E s \in Symbols, ok \in BOOLEAN : CleanupClose(s, ok)
    \/ CleanupEnd

SpecLive == InitSpecLive /\ [][NextLive]_vars

(***************************************************************************)
(* SpecSig: generate_signals with its hooks and its scorer.  A hook is a   *)
(* callback "(symbol, df) -> None" / "(symbol, signal) -> None" that       *)
(* returns or raises an Exception; the scorer is absent (ai_client None),  *)
(* raises, or answers; trail lists what the call invoked, in order, and    *)
(* sig is what it returned, until execute_order has run on it.             *)
(***************************************************************************)
HookNames == {"before_signal", "after_signal"}
HookKinds == {"returns", "raises"}

\* the hooks a list has invoked, and whether an exception left the loop
Hooked(invoked, escaped) == [invoked |-> invoked, escaped |-> escaped]

first_raising_from(hooks, k) ==
    IF k > Len(hooks) THEN 0
    ELSE IF hooks[k] = "raises" THEN k
    ELSE first_raising_from(hooks, k + 1)

\* variant: the loop has no try / except, the first exception leaves it
run_hooks_unguarded(hook_name) ==
    LET hooks == plugins[hook_name]
        stop == first_raising_from(hooks, 1)
    IN  IF stop = 0
        THEN Hooked([k \in 1..Len(hooks) |-> <<hook_name, k>>], FALSE)
        ELSE Hooked([k \in 1..stop |-> <<hook_name, k>>], TRUE)

\* "for fn in self.plugins[hook_name]: try: fn(...) except Exception: log"
run_hooks(hook_name) ==
    Hooked([k \in 1..Len(plugins[hook_name]) |-> <<hook_name, k>>], FALSE)

\* the reading of predicted_return: 1 above 0.005, -1 below -0.005, else 0;
\* scorer_reading is the scorer's answer or the draw of np.random.uniform
predicted_return(scorer_reading) ==
    IF ai_client # "none"
    THEN IF ai_client = "raises" THEN 0 ELSE scorer_reading
    ELSE scorer_reading

\* the indicator triggers alone: none, the EMA cross, or the cross and the RSI
IndicatorReadings ==
    {r \in Readings : r.bb = 0 /\ r.ai = 0 /\ r.rsi \in {0, r.ema}}

Outcome(raised, result, events) == [raised |-> raised, result |-> result, trail |-> events]

\* one call of generate_signals: what it invokes and what it returns
generate_signals_call(symbol, ind, scorer_reading) ==
    LET df == historical_data[symbol]
        before == run_hooks("before_signal")
        after == run_hooks("after_signal")
        short == df = <<>> \/ Len(df) < min_bars
        r == [ind EXCEPT !.ai = predicted_return(scorer_reading)]
        scorer == IF ~short /\ ai_client # "none" THEN << <<"predict", 0>> >> ELSE <<>>
        manager == IF ~short THEN << <<"risk_manager", 0>> >> ELSE <<>>
    IN  IF before.escaped THEN Outcome(TRUE, Hold, before.invoked)
        ELSE IF after.escaped
        THEN Outcome(TRUE, Hold, before.invoked \o scorer \o manager \o after.invoked)
        ELSE Outcome(FALSE, generate_signals(symbol, r),
                     before.invoked \o scorer \o manager \o after.invoked)

sig_frame == <<data_handler_ref, max_position_pct, dh_vars, mode, feed, ai_client,
               predict_frame, wire, cur, loop_at, swept>>

\* register_plugin(hook_name, callback)
SigRegister(hook_name, kind) ==
    /\ pc = "run"
    /\ Len(plugins["before_signal"]) + Len(plugins["after_signal"]) < MaxHooks
    /\ plugins' = [plugins EXCEPT ![hook_name] = Append(@, kind)]
    /\ no_call
    /\ UNCHANGED <<sig, trail, pc, sig_frame>>

\* the scorer's answer or the stub's draw; a scorer that raises gives none
ScorerReadings == IF ai_client = "raises" THEN {0} ELSE {-1, 0, 1}

\* "signal = self.generate_signals(symbol)"
SigGenerate(symbol, ind, scorer_reading) ==
    LET out == generate_signals_call(symbol, ind, scorer_reading) IN
    /\ pc = "run"
    /\ scorer_reading \in ScorerReadings
    /\ out.result.signal = "BUY" => trades_started < MaxSigTrades
    /\ pc' = "execute"
    /\ sig' = out.result
    /\ trail' = out.trail
    /\ call' = Call("generate_signals", ~out.raised)
    /\ UNCHANGED <<ledger, plugins, sig_frame>>

\* "self.execute_order(signal, symbol)", backtest mode
SigExecute(symbol) ==
    /\ pc = "execute"
    /\ execute_order(sig, symbol, TRUE)
    /\ pc' = "run"
    /\ sig' = Hold
    /\ trail' = <<>>
    /\ UNCHANGED <<plugins, sig_frame>>

\* a position opened directly, at a price above or below the last close
SigOpen(symbol, price) ==
    /\ pc = "run"
    /\ ~has_position(symbol)
    /\ trades_started < MaxSigTrades
    /\ open_position(symbol, price)
    /\ UNCHANGED <<sig, trail, pc, plugins, sig_frame>>

\* AAPL is loaded; TEST has no bar, one bar, or the loaded history
InitSpecSig ==
    /\ InitRM
    /\ data_handler_ref = FALSE
    /\ \E n \in 0..Len(LoadedHistory) :
           historical_data = [s \in Symbols |->
               IF s = "AAPL" THEN LoadedHistory ELSE SubSeq(LoadedHistory, 1, n)]
    /\ atr_column = [s \in Symbols |-> NaN]
    /\ real_time_buffer = [s \in Symbols |-> <<>>]
    /\ last_timestamp = [s \in Symbols |->
            IF historical_data[s] = <<>> THEN NoneTs
            ELSE historical_data[s][Len(historical_data[s])].timestamp]
    /\ warnings = {}
    /\ ingested = 0
    /\ max_position_pct = Rat(1, 2)
    /\ ai_client \in {"none", "raises", "answers"}
    /\ plugins = NoPlugins
    /\ trail = <<>>
    /\ predict_frame = PredictIdle
    /\ wire = <<>>
    /\ mode = "backtest"
    /\ feed = FeedIdle
    /\ pc = "run"
    /\ cur = "none"
    /\ sig = Hold
    /\ loop_at = 1
    /\ swept = {}

NextSig ==
    \/ \E h \in HookNames, k \in HookKinds : SigRegister(h, k)
    \/ \E ind \in IndicatorReadings, a \in {-1, 0, 1} : SigGenerate("TEST", ind, a)
    \/ SigExecute("TEST")
    \/ \E p \in Prices : SigOpen("TEST", p)

SpecSig == InitSpecSig /\ [][NextSig]_vars

(***************************************************************************)
(* SpecAI: AIClient.predict, one pass of its while loop per step.  The     *)
(* frame holds the locals attempt and backoff, the statuses of the         *)
(* requests posted so far, the waits slept so far and how the call ended.  *)
(* A response is an HTTP status with the kind of its body, or the          *)
(* RequestException that requests.post raised.                             *)
(***************************************************************************)
max_attempts == 3

RetryableStatuses == {"429", "500", "502", "503", "504"}

Bodies == {"number", "no_key", "null", "not_json"}

Responses ==
    {[status |-> "200", body |-> b] : b \in Bodies}
    \cup {[status |-> s, body |-> "error"] : s \in RetryableStatuses \cup {"404"}}
    \cup {[status |-> "RequestException", body |-> "none"]}

\* time.sleep(backoff); backoff *= 2; attempt += 1, then the while test
predict_retry(frame, status) ==
    LET next == [frame EXCEPT !.posted = Append(@, status),
                              !.slept = Append(@, frame.backoff),
                              !.backoff = 2 * @,
                              !.attempt = @ + 1]
    IN IF next.attempt < max_attempts
       THEN next
       ELSE [next EXCEPT !.at = "returned", !.result = "0.0"]

\* One pass of the loop body.  response.json() on a body that is not JSON
\* raises an error that is a RequestException in some releases of requests
\* and a plain ValueError in others (json_error_is_request_exception).
predict_pass(frame, response, json_error_is_request_exception) ==
    LET ended(at, result) ==
            [frame EXCEPT !.posted = Append(@, response.status),
                          !.at = at, !.result = result]
    IN CASE response.status = "RequestException" ->
                predict_retry(frame, response.status)
         [] response.status = "200" /\ response.body = "number" ->
                ended("returned", "value")
         [] response.status = "200" /\ response.body = "no_key" ->
                ended("returned", "0.0")
         [] response.status = "200" /\ response.body = "null" ->
                ended("raised", "TypeError")
         [] response.status = "200" /\ response.body = "not_json" ->
                IF json_error_is_request_exception
                THEN predict_retry(frame, response.status)
                ELSE ended("raised", "ValueError")
         [] response.status \in RetryableStatuses ->
                predict_retry(frame, response.status)
         [] OTHER -> ended("returned", "0.0")

ai_frame ==
    <<rm_vars, data_handler_ref, max_position_pct, dh_vars, mode, feed, ai_client,
      plugins, trail, wire, pc, cur, sig, loop_at, swept>>

PredictCall ==
    /\ predict_frame.at \in {"idle", "returned", "raised"}
    /\ predict_frame' =
           IF 0 < max_attempts
           THEN [PredictIdle EXCEPT !.at = "loop", !.backoff = 1]
           ELSE [PredictIdle EXCEPT !.at = "returned", !.backoff = 1,
                                    !.result = "0.0"]
    /\ UNCHANGED ai_frame

PredictPass(response, json_error_is_request_exception) ==
    /\ predict_frame.at = "loop"
    /\ predict_frame' =
           predict_pass(predict_frame, response, json_error_is_request_exception)
    /\ UNCHANGED ai_frame

InitSpecAI ==
    /\ InitSpecMain
    /\ mode = "backtest"

NextAI ==
    \/ PredictCall
    \/ \E r \in Responses, c \in BOOLEAN : PredictPass(r, c)

SpecAI == InitSpecAI /\ [][NextAI]_vars

(***************************************************************************)
(* SpecBroker: the BrokerAPI called directly.  wire lists, in order, the   *)
(* SendOrder invocations made on Kiwoom (with whether each raised) and the *)
(* rate-limit sleeps; call holds how the last call ended for its caller.   *)
(***************************************************************************)
HogaTypes == {"HogaType.LIMIT", "HogaType.MARKET"}

\* what callers pass as order_type: a HogaType, or the str "LIMIT"
OrderTypes == HogaTypes \cup {"LIMIT"}

SendOrderEvent(request, raised) ==
    [op |-> "SendOrder", request |-> request, raised |-> raised]

SleepEvent == [op |-> "sleep", request |-> "rate_limit_sec", raised |-> FALSE]

orders_sent == Len(SelectSeq(wire, LAMBDA e : e.op = "SendOrder"))

send_order(direction, quantity, price, order_type, kiwoom_ok) ==
    IF quantity <= 0 \/ price <= 0
    THEN /\ call' = Call("ValueError", FALSE)
         /\ wire' = wire
    ELSE IF order_type \notin HogaTypes
    THEN \* order_type.value fails while the arguments are evaluated
         /\ call' = Call("AttributeError", FALSE)
         /\ wire' = wire
    ELSE IF ~kiwoom_ok
    THEN /\ call' = Call("send_order", FALSE)
         /\ wire' = Append(wire, SendOrderEvent("OrderRequest", TRUE))
    ELSE /\ call' = Call("send_order", TRUE)
         /\ wire' = wire \o <<SendOrderEvent("OrderRequest", FALSE), SleepEvent>>

cancel_order(kiwoom_ok) ==
    IF ~kiwoom_ok
    THEN /\ call' = Call("cancel_order", FALSE)
         /\ wire' = Append(wire, SendOrderEvent("CancelRequest", TRUE))
    ELSE /\ call' = Call("cancel_order", TRUE)
         /\ wire' = wire \o <<SendOrderEvent("CancelRequest", FALSE), SleepEvent>>

broker_frame ==
    <<ledger, data_handler_ref, max_position_pct, dh_vars, mode, feed, ai_client,
      plugins, trail, predict_frame, pc, cur, sig, loop_at, swept>>

BrokerSendOrder(direction, quantity, price, order_type, kiwoom_ok) ==
    /\ orders_sent < MaxOrders
    /\ send_order(direction, quantity, price, order_type, kiwoom_ok)
    /\ UNCHANGED broker_frame

BrokerCancelOrder(kiwoom_ok) ==
    /\ orders_sent < MaxOrders
    /\ cancel_order(kiwoom_ok)
    /\ UNCHANGED broker_frame

InitSpecBroker ==
    /\ InitSpecMain
    /\ mode = "live"

NextBroker ==
    \/ \E d \in {"BUY", "SELL"}, q \in {0, 1}, p \in {0, 100}, t \in OrderTypes,
          ok \in BOOLEAN : BrokerSendOrder(d, q, p, t, ok)
    \/ \E ok \in BOOLEAN : BrokerCancelOrder(ok)

SpecBroker == InitSpecBroker /\ [][NextBroker]_vars

(***************************************************************************)
(* SpecAPI: the RiskManager used the way tests/test_risk_manager.py and    *)
(* tests/test_tading_bot.py use it: its methods called directly, with the  *)
(* keyword arguments the tests pass, and its capital attribute assigned.   *)
(* AAPL has an ATR of 2 and is sized in ATR mode, TEST in percent mode;    *)
(* max_position_pct is 0.1 (Scenario B of the specification) or 0.5.       *)
(***************************************************************************)
\* "def open_position(self, symbol: str, price: float)" called with a
\* quantity keyword: Python raises TypeError before the body runs
open_position_quantity(symbol, price, quantity) ==
    /\ call' = Call("TypeError", FALSE)
    /\ UNCHANGED ledger

\* the capitals the tests assign: -3 %, +2 %, +5 % of the starting capital
AssignedCapitals == {(initial_capital * k) \div 100 : k \in {97, 102, 105}}

\* the quantities the tests request
RequestedQuantities == {1, 4}

APIOpen(symbol, price) ==
    /\ ~has_position(symbol)
    /\ trades_started < MaxTrades
    /\ open_position(symbol, price)
    /\ UNCHANGED <<data_handler_ref, max_position_pct, dh_vars, bot_vars>>

APIOpenQuantity(symbol, price, quantity) ==
    /\ ~has_position(symbol)
    /\ open_position_quantity(symbol, price, quantity)
    /\ UNCHANGED <<data_handler_ref, max_position_pct, dh_vars, bot_vars>>

APIClose(symbol, price) ==
    /\ close_position(symbol, price)
    /\ UNCHANGED <<data_handler_ref, max_position_pct, dh_vars, bot_vars>>

\* "rm.capital = 970.0" on a manager that has not traded yet
APISetCapital(c) ==
    /\ trades_started = 0
    /\ capital' = c
    /\ call' = Call("set_capital", TRUE)
    /\ UNCHANGED <<available_cash, positions, trade_history, daily_starting_capital,
                   data_handler_ref, max_position_pct, dh_vars, bot_vars>>

InitSpecAPI ==
    /\ InitRM
    /\ InitDH
    /\ data_handler_ref = TRUE
    /\ \A s \in Symbols : historical_data[s] = LoadedHistory
    /\ atr_column = [s \in Symbols |-> IF s = "AAPL" THEN 2 ELSE NaN]
    /\ max_position_pct \in {Rat(1, 10), Rat(1, 2)}
    /\ ai_client = "answers"
    /\ plugins = NoPlugins
    /\ trail = <<>>
    /\ predict_frame = PredictIdle
    /\ wire = <<>>
    /\ mode = "backtest"
    /\ feed = FeedIdle
    /\ pc = "run"
    /\ cur = "none"
    /\ sig = Hold
    /\ loop_at = 1
    /\ swept = {}

NextAPI ==
    \/ \E s \in Symbols, p \in Prices : APIOpen(s, p)
    \/ \E s \in Symbols, q \in RequestedQuantities : APIOpenQuantity(s, 100, q)
    \/ \E s \in Symbols, p \in Prices : APIClose(s, p)
    \/ \E c \in AssignedCapitals : APISetCapital(c)

SpecAPI == InitSpecAPI /\ [][NextAPI]_vars

(***************************************************************************)
(* Reference definitions used by the properties.                           *)
(***************************************************************************)
\* the events of one hook list in a trail
hook_events(events, hook_name) == SelectSeq(events, LAMBDA e : e[1] = hook_name)

\* every hook of the list, in registration order
in_registration_order(hook_name) ==
    [k \in 1..Len(plugins[hook_name]) |-> <<hook_name, k>>]

\* the trail has an event of that name
invoked(events, name) == \E k \in 1..Len(events) : events[k][1] = name

\* the five decision variants
Decisions == {"BUY", "SELL", "SELL_SL", "SELL_TP", "HOLD"}

\* the fields of the account the frame properties speak of
account == <<capital, available_cash, positions, trade_history>>

\* the quantity the sizing rule computes before any feasibility test
computed_quantity(symbol, price) ==
    IF get_latest_atr(symbol) > 0
    THEN (capital * max_position_pct.num)
            \div (max_position_pct.den * get_latest_atr(symbol) * atr_stop_multiplier)
    ELSE (capital * max_position_pct.num) \div (max_position_pct.den * price)

\* the cumulative maximum of curve e up to point i
running_peak(e, i) ==
    CHOOSE m \in {e[j] : j \in 1..i} : \A j \in 1..i : e[j] <= m

equities_of(df_eq) == [i \in 1..Len(df_eq) |-> df_eq[i].equity]

\* (runningPeak_i - equity_i) / runningPeak_i
drawdown_at(e, i) == Rat(running_peak(e, i) - e[i], running_peak(e, i))

\* some point of curve e has a drawdown of at least pct percent
curve_reaches(e, pct) ==
    \E i \in 1..Len(e) : RatLeq(Rat(pct, 100), drawdown_at(e, i))

drawdown_is_max_of(dd, e) ==
    /\ \A i \in 1..Len(e) : RatLeq(drawdown_at(e, i), dd)
    /\ \E i \in 1..Len(e) : RatEq(drawdown_at(e, i), dd)
    /\ Len(e) = 1 => dd.num = 0

drawdown_zero_at_peak(dd, e) ==
    /\ dd.num >= 0
    /\ dd.den > 0
    /\ (\A i \in 1..Len(e) : e[i] <= e[Len(e)]) => dd.num = 0

drawdown_limit_reached == RatLeq(Rat(daily_max_loss_pct, 100), get_current_drawdown)

\* C3: close_position on a symbol with an open Position computes
\* pnl = (exit_price - entry_price) * quantity, adds pnl to capital, adds
\* exit_price * quantity to available_cash, marks the Position closed and
\* appends exactly one TradeRecord with that pnl; from capital 1000 and
\* max_position_pct 0.5 a percent-mode open at 100 has quantity 5 and its
\* close at 102 yields pnl 10, capital 1010 and 510 more available_cash.
C3_CloseUpdatesLedger ==
    [][\A s \in Symbols, p \in Prices :
        /\ (has_position(s) /\ close_position(s, p)) =>
              LET pos == positions[s]
                  pnl == (p - pos.entry_price) * pos.quantity
              IN  /\ capital' = capital + pnl
                  /\ available_cash' = available_cash + p * pos.quantity
                  /\ positions'[s] = [pos EXCEPT !.is_open = FALSE]
                  /\ \A o \in Symbols \ {s} : positions'[o] = positions[o]
                  /\ Len(trade_history') = Len(trade_history) + 1
                  /\ SubSeq(trade_history', 1, Len(trade_history)) = trade_history
                  /\ trade_history'[Len(trade_history')].pnl = pnl
                  /\ trade_history'[Len(trade_history')].symbol = s
                  /\ (capital = 1000 /\ pos.entry_price = 100 /\ pos.quantity = 5 /\ p = 102)
                        => (pnl = 10 /\ capital' = 1010
                            /\ available_cash' = available_cash + 510)
        /\ (capital = 1000 /\ p = 100 /\ get_latest_atr(s) = NaN
              /\ ~has_position(s) /\ open_position(s, p) /\ call'.applied)
              => positions'[s].quantity = 5
      ]_vars

C3_Witness ==
    /\ call = Call("close_position", TRUE)
    /\ Len(trade_history) = 1
    /\ trade_history[1].entry_price = 100
    /\ trade_history[1].exit_price = 102
    /\ trade_history[1].quantity = 5
    /\ capital = 1010

\* C4: capital changes only in a close_position that closes an open Position;
\* available_cash changes only by the debit price * quantity of a feasible
\* open_position or the credit exit_price * quantity of such a close; an
\* open_position with infeasible sizing and a close_position on a symbol with
\* no Position or a closed Position leave capital, available_cash, positions
\* and trade_history unchanged.
C4_LedgerFrame ==
    [][/\ capital' # capital =>
            \E s \in Symbols, p \in Prices : has_position(s) /\ close_position(s, p)
       /\ available_cash' # available_cash =>
            \/ \E s \in Symbols, p \in Prices :
                  /\ calculate_position_size(s, p).ok
                  /\ open_position(s, p)
                  /\ available_cash' = available_cash - p * positions'[s].quantity
            \/ \E s \in Symbols, p \in Prices :
                  /\ has_position(s)
                  /\ close_position(s, p)
                  /\ available_cash' = available_cash + p * positions[s].quantity
       /\ \A s \in Symbols, p \in Prices :
            (~calculate_position_size(s, p).ok /\ open_position(s, p))
               => UNCHANGED account
       /\ \A s \in Symbols, p \in Prices :
            (~has_position(s) /\ close_position(s, p)) => UNCHANGED account
      ]_vars

\* a close of a Position that an earlier close has already closed
C4_Witness ==
    /\ call = Call("close_position", FALSE)
    /\ \E s \in Symbols : positions[s].present /\ ~positions[s].is_open
    /\ Len(trade_history) = 1

\* C5: calculate_position_size returns None if and only if the computed
\* quantity is < 1 or price * quantity > available_cash, in ATR mode and in
\* percent mode; a returned quantity is an integer >= 1.
C5_SizingInfeasibleIff ==
    \A s \in Symbols, p \in Prices :
        LET size_info == calculate_position_size(s, p)
            qty == computed_quantity(s, p)
        IN  /\ ~size_info.ok <=> (qty < 1 \/ p * qty > available_cash)
            /\ size_info.ok => (size_info.qty = qty /\ size_info.qty \in Nat
                                /\ size_info.qty >= 1)

\* with a Position open: an ATR-mode sizing and a percent-mode sizing, each
\* with a quantity >= 1, refused for cash
C5_Witness ==
    /\ \E s \in Symbols : has_position(s)
    /\ \E s \in Symbols, p \in Prices :
          /\ get_latest_atr(s) > 0
          /\ computed_quantity(s, p) >= 1
          /\ ~calculate_position_size(s, p).ok
    /\ \E s \in Symbols, p \in Prices :
          /\ get_latest_atr(s) = NaN
          /\ computed_quantity(s, p) >= 1
          /\ ~calculate_position_size(s, p).ok

\* C6 as stated: can_open_position is true exactly when the sizing is
\* feasible and the drawdown is strictly below the daily max-loss limit.
C6_CanOpenIffFeasibleAndDrawdown ==
    \A s \in Symbols, p \in Prices :
        can_open_position(s, p) <=>
            (calculate_position_size(s, p).ok /\ ~drawdown_limit_reached)

\* C6 amended: can_open_position is true exactly when the sizing is feasible,
\* price * quantity <= capital * max_position_pct and the drawdown is
\* strictly below the daily max-loss limit.
C6_CanOpenIffFeasibleCappedAndDrawdown ==
    \A s \in Symbols, p \in Prices :
        LET size_info == calculate_position_size(s, p) IN
        can_open_position(s, p) <=>
            /\ size_info.ok
            /\ p * size_info.qty * max_position_pct.den <= capital * max_position_pct.num
            /\ ~curve_reaches(equities_of(get_equity_curve), daily_max_loss_pct)

C6_Witness ==
    /\ trade_history # <<>>
    /\ \E s \in Symbols, p \in Prices :
          /\ calculate_position_size(s, p).ok
          /\ p * calculate_position_size(s, p).qty * max_position_pct.den
                > capital * max_position_pct.num
          /\ ~can_open_position(s, p)
    /\ \E s \in Symbols, p \in Prices : can_open_position(s, p)

\* C7: check_daily_targets returns false exactly when
\* (capital - daily_starting_capital) / daily_starting_capital >= the daily
\* target return or the drawdown >= the daily max-loss limit, and true in
\* every other state; capital 1020 from a daily start of 1000 with target 2%
\* returns false and a fresh account returns true.
C7_DailyTargetsIff ==
    /\ ~check_daily_targets <=>
          \/ (capital - daily_starting_capital) * 100
                >= target_daily_return_pct * daily_starting_capital
          \/ curve_reaches(equities_of(get_equity_curve), daily_max_loss_pct)
    /\ (capital = 1020 /\ daily_starting_capital = 1000) => ~check_daily_targets
    /\ (trade_history = <<>> /\ capital = initial_capital) => check_daily_targets

C7_Witness ==
    /\ capital = 1020
    /\ daily_starting_capital = 1000
    /\ ~check_daily_targets
    /\ ~drawdown_limit_reached

\* C8: get_current_drawdown is >= 0 in every reachable state and equals 0
\* whenever the most recent equity point is a new peak of the equity curve,
\* also when an earlier losing trade has since been recovered.
C8_DrawdownZeroAtNewPeak ==
    drawdown_zero_at_peak(get_current_drawdown, equities_of(get_equity_curve))

\* C9: get_current_drawdown equals the maximum over the points i of the
\* equity curve of (runningPeak_i - equity_i) / runningPeak_i, and is 0 when
\* the curve has a single point.
C9_DrawdownIsMaximum ==
    drawdown_is_max_of(get_current_drawdown, equities_of(get_equity_curve))

\* a loss followed by a recovery to a new peak
C9_Witness ==
    /\ Len(trade_history) = 2
    /\ trade_history[1].pnl < 0
    /\ capital > daily_starting_capital
    /\ get_current_drawdown.num > 0

(***************************************************************************)
(* Bars of the data handler                                                *)
(***************************************************************************)
RECURSIVE volume_of(_, _)
volume_of(ticks, i) == IF i = 0 THEN 0 ELSE volume_of(ticks, i - 1) + ticks[i].volume

\* the bar the ticks of one bucket, in arrival order, aggregate to
bar_of_bucket(minute_ts, ticks) ==
    LET prices == {ticks[i].price : i \in 1..Len(ticks)} IN
    [timestamp |-> minute_ts,
     open |-> ticks[1].price,
     high |-> CHOOSE p \in prices : \A q \in prices : q <= p,
     low |-> CHOOSE p \in prices : \A q \in prices : p <= q,
     close |-> ticks[Len(ticks)].price,
     volume |-> volume_of(ticks, Len(ticks))]

bar_in_range(bar) ==
    /\ bar.low <= bar.open /\ bar.open <= bar.high
    /\ bar.low <= bar.close /\ bar.close <= bar.high

\* the history of TEST after the bucket of minute_ts was finalized
finalized_as_bucket(minute_ts) ==
    LET ticks == bucket_ticks(real_time_buffer["TEST"], minute_ts) IN
    IF ticks = <<>>
    THEN historical_data' = historical_data
    ELSE /\ bar_in_range(bar_of_bucket(minute_ts, ticks))
         /\ historical_data'["TEST"] =
                prune_old_bars(Append(historical_data["TEST"], bar_of_bucket(minute_ts, ticks)))

\* C10: finalizing a non-empty bucket appends the bar with open = first tick's
\* price and close = last tick's price in arrival order, high = maximum and
\* low = minimum tick price, volume = sum of the bucket's tick volumes (so
\* low <= open, close <= high); finalizing an empty or missing bucket appends
\* nothing.  Checked on every direct _finalize_minute_bar call and on every
\* update_realtime call that finalizes exactly one bucket.
C10_FinalizedBarAggregatesBucket ==
    [][/\ \A m \in TickMinutes :
              DHFinalizeMinuteBar("TEST", m * Minute) => finalized_as_bucket(m * Minute)
       /\ \A t \in FeedTicks :
              (/\ DHUpdateRealtime("TEST", t)
               /\ last_timestamp["TEST"] # NoneTs
               /\ floor_to_minute(t.datetime) > last_timestamp["TEST"]
               /\ Len(minutes_upto(real_time_buffer["TEST"], last_timestamp["TEST"])) = 1)
              => finalized_as_bucket(
                     minutes_upto(real_time_buffer["TEST"], last_timestamp["TEST"])[1])
      ]_vars

\* a bar built from two ticks of different prices is in the history, and a
\* later finalization found no bucket
C10_Witness ==
    /\ \E i \in 1..Len(historical_data["TEST"]) :
           /\ historical_data["TEST"][i].open = 98
           /\ historical_data["TEST"][i].close = 102
           /\ historical_data["TEST"][i].volume = 5
    /\ "no_ticks" \in warnings

(***************************************************************************)
(* Decisions of the bot                                                    *)
(***************************************************************************)
last_close(symbol) == historical_data[symbol][Len(historical_data[symbol])].close

\* the decision the priority rule gives a symbol under the readings r
priority_decision(symbol, r) ==
    LET pos == positions[symbol]
        held == pos.present /\ pos.is_open
    IN  IF held /\ last_close(symbol) * pos.stop_loss_price.den <= pos.stop_loss_price.num
        THEN "SELL_SL"
        ELSE IF held /\ last_close(symbol) * pos.take_profit_price.den
                            >= pos.take_profit_price.num
        THEN "SELL_TP"
        ELSE IF sell_score(r) >= SELL_THRESHOLD /\ held THEN "SELL"
        ELSE IF buy_score(r) >= BUY_THRESHOLD /\ ~held
                /\ can_open_position(symbol, last_close(symbol))
        THEN "BUY"
        ELSE "HOLD"

\* C1: on a symbol with at least max(ema_long_period, rsi_period, bb_period)
\* bars (with fewer the step before returns HOLD), generate_signals returns
\* SELL_SL if a Position is open and the latest close <= its stop-loss, else
\* SELL_TP if the close >= its take-profit, else SELL if sellScore >= 1.5 and a
\* Position is open, else BUY if buyScore >= 1.5, no Position is open and
\* can_open_position succeeds, carrying the RiskManager's quantity (>= 1) at the
\* latest close, else HOLD; a sell variant is never returned without an open
\* Position and BUY never while one is open.  (The step taken at
\* pc = "generate" is the generate_signals call on cur.)
C1_DecisionByPriority ==
    [][(pc = "generate" /\ Len(historical_data[cur]) >= min_bars)
       => \A r \in readings_in_bounds :
              sig' = generate_signals(cur, r)
              => /\ sig'.signal = priority_decision(cur, r)
                 /\ sig'.signal \in {"SELL", "SELL_SL", "SELL_TP"} => has_position(cur)
                 /\ sig'.signal = "BUY" =>
                        /\ ~has_position(cur)
                        /\ sig'.price = last_close(cur)
                        /\ sig'.quantity = computed_quantity(cur, last_close(cur))
                        /\ sig'.quantity >= 1
      ]_vars

\* a stop-loss sale was decided for one symbol while the other holds a Position
C1_Witness ==
    /\ pc = "execute"
    /\ sig.signal = "SELL_SL"
    /\ has_position(cur)
    /\ \E s \in Symbols \ {cur} : has_position(s)

\* C2: on one thread, open_position is never called on a symbol that has an
\* open Position, and an open Position changes only by being closed: no second
\* open overwrites it.
C2_OpenNeverOverwrites ==
    [][/\ call'.op = "open_position" => ~has_position(cur)
       /\ \A s \in Symbols :
              (has_position(s) /\ positions'[s] # positions[s])
              => /\ call' = Call("close_position", TRUE)
                 /\ positions'[s] = [positions[s] EXCEPT !.is_open = FALSE]
      ]_vars

\* a symbol traded before was opened again
C2_Witness ==
    /\ call = Call("open_position", TRUE)
    /\ \E s \in Symbols :
           /\ has_position(s)
           /\ \E i \in 1..Len(trade_history) : trade_history[i].symbol = s

(***************************************************************************)
(* The bar series under update_realtime                                    *)
(***************************************************************************)
bar_timestamps(symbol) ==
    [i \in 1..Len(historical_data[symbol]) |-> historical_data[symbol][i].timestamp]

\* C11: after any sequence of update_realtime calls the bar series has strictly
\* increasing timestamps: no two bars share a minute and no bar follows a bar
\* of the same or a later minute.
C11_BarTimestampsStrictlyIncreasing ==
    \A i \in 1..Len(historical_data["TEST"]) :
        \A j \in 1..Len(historical_data["TEST"]) :
            i < j => bar_timestamps("TEST")[i] < bar_timestamps("TEST")[j]

\* the buckets at or before the marker, in the buffer's order, and their bars
due_buckets(buff, marker) == SelectSeq(buff, LAMBDA b : b.minute_ts <= marker)

due_bars(buff, marker) ==
    [i \in 1..Len(due_buckets(buff, marker)) |->
        bar_of_bucket(due_buckets(buff, marker)[i].minute_ts,
                      due_buckets(buff, marker)[i].ticks)]

\* the bars within the lookback window of the latest one
bars_in_window(bars) ==
    SelectSeq(bars, LAMBDA b :
        \E c \in 1..Len(bars) :
            /\ \A k \in 1..Len(bars) : bars[k].timestamp <= bars[c].timestamp
            /\ b.timestamp >= bars[c].timestamp - lookback_minutes * Minute)

\* the buffer with the tick put at the end of the bucket of its minute
tick_buffered(buff, tick) ==
    LET m == floor_to_minute(tick.datetime) IN
    IF \E i \in 1..Len(buff) : buff[i].minute_ts = m
    THEN [i \in 1..Len(buff) |->
            IF buff[i].minute_ts = m
            THEN [minute_ts |-> m, ticks |-> buff[i].ticks \o <<tick>>]
            ELSE buff[i]]
    ELSE buff \o <<[minute_ts |-> m, ticks |-> <<tick>>]>>

\* update_realtime took the tick as one of a minute after the marker
finalized_up_to_marker(symbol, tick) ==
    LET marker == last_timestamp[symbol]
        buff == real_time_buffer[symbol]
    IN  /\ last_timestamp'[symbol] = floor_to_minute(tick.datetime)
        /\ real_time_buffer'[symbol] =
               SelectSeq(tick_buffered(buff, tick), LAMBDA b : b.minute_ts > marker)
        /\ \E i \in 1..Len(real_time_buffer'[symbol]) :
               real_time_buffer'[symbol][i].minute_ts = floor_to_minute(tick.datetime)
        /\ historical_data'[symbol] =
               bars_in_window(historical_data[symbol] \o due_bars(buff, marker))

\* update_realtime only buffered the tick
only_buffered(symbol, tick) ==
    /\ historical_data'[symbol] = historical_data[symbol]
    /\ last_timestamp'[symbol] = last_timestamp[symbol]
    /\ real_time_buffer'[symbol] = tick_buffered(real_time_buffer[symbol], tick)

\* C12: update_realtime finalizes only on a tick whose minute is strictly after
\* the marker: then every buffered minute <= the previous marker loses its
\* bucket and gets its bar appended (in the buffer's order, pruned to the
\* lookback window), the marker becomes the tick's minute and the bucket of the
\* tick's own minute stays buffered; on a tick at or before the marker (or with
\* no marker) no bar is finalized and the marker is unchanged.
C12_FinalizesOnlyPastMarker ==
    [][\A t \in URTicks :
          URUpdateRealtime("TEST", t) =>
              IF /\ last_timestamp["TEST"] # NoneTs
                 /\ floor_to_minute(t.datetime) > last_timestamp["TEST"]
              THEN finalized_up_to_marker("TEST", t)
              ELSE only_buffered("TEST", t)
      ]_vars

\* one call finalized the buckets of minutes 2 and 1 (the bucket of the marker's
\* minute and a late one), leaving the tick's own bucket of minute 8
C12_Witness ==
    /\ Len(historical_data["TEST"]) = 4
    /\ bar_timestamps("TEST")[3] = 2 * Minute
    /\ bar_timestamps("TEST")[4] = 1 * Minute
    /\ last_timestamp["TEST"] = 8 * Minute
    /\ Len(real_time_buffer["TEST"]) = 1
    /\ real_time_buffer["TEST"][1].minute_ts = 8 * Minute

\* C13: a tick of a minute before the marker is dropped: update_realtime leaves
\* the tick buffer, the bar series and the marker unchanged.
C13_LateTickDropped ==
    [][\A t \in URTicks :
          (/\ URUpdateRealtime("TEST", t)
           /\ last_timestamp["TEST"] # NoneTs
           /\ floor_to_minute(t.datetime) < last_timestamp["TEST"])
          => UNCHANGED <<real_time_buffer, historical_data, last_timestamp>>
      ]_vars

\* the bar of a bucket whose ticks are ordered by their timestamps
earliest_tick(ticks) ==
    ticks[CHOOSE i \in 1..Len(ticks) :
              \A j \in 1..Len(ticks) : ticks[i].datetime <= ticks[j].datetime]

latest_tick(ticks) ==
    ticks[CHOOSE i \in 1..Len(ticks) :
              \A j \in 1..Len(ticks) : ticks[j].datetime <= ticks[i].datetime]

bar_by_tick_time(minute_ts, ticks) ==
    [bar_of_bucket(minute_ts, ticks) EXCEPT
        !.open = earliest_tick(ticks).price,
        !.close = latest_tick(ticks).price]

distinct_tick_times(ticks) ==
    \A i \in 1..Len(ticks) : \A j \in 1..Len(ticks) :
        i # j => ticks[i].datetime # ticks[j].datetime

\* C14: the bar finalized for a minute does not depend on the arrival order of
\* its ticks: when update_realtime finalizes one bucket whose ticks have
\* different timestamps, the appended bar opens at the price of the tick with
\* the earliest timestamp and closes at the price of the one with the latest.
C14_BarIndependentOfArrivalOrder ==
    [][\A t \in URTicks :
          (/\ URUpdateRealtime("TEST", t)
           /\ last_timestamp["TEST"] # NoneTs
           /\ floor_to_minute(t.datetime) > last_timestamp["TEST"]
           /\ Len(due_buckets(real_time_buffer["TEST"], last_timestamp["TEST"])) = 1
           /\ distinct_tick_times(
                  due_buckets(real_time_buffer["TEST"], last_timestamp["TEST"])[1].ticks))
          => LET b == due_buckets(real_time_buffer["TEST"], last_timestamp["TEST"])[1]
             IN  historical_data'["TEST"] =
                     bars_in_window(Append(historical_data["TEST"],
                                           bar_by_tick_time(b.minute_ts, b.ticks)))
      ]_vars

\* C15: once update_realtime has taken in one or more ticks for a symbol, the
\* symbol's bar series is non-empty and its marker is set (a symbol that started
\* with a loaded history has both from the start, so the case in question is
\* the symbol that started with none).
C15_TicksGiveBarsAndMarker ==
    ingested >= 1 =>
        /\ historical_data["TEST"] # <<>>
        /\ last_timestamp["TEST"] # NoneTs

(***************************************************************************)
(* Orders and the end of the session                                       *)
(***************************************************************************)
\* C16: in live mode, when the broker submission of a BUY, SELL, SELL_SL or
\* SELL_TP decision raises, execute_order returns normally (the bot goes on
\* running) with capital, available_cash, positions and trade_history
\* unchanged, so generate_signals gives the symbol the same decision again
\* under the same readings.
C16_FailedSubmissionLeavesLedger ==
    [][(pc = "execute" /\ mode = "live" /\ ExecuteOrder(FALSE))
       => /\ UNCHANGED ledger
          /\ pc' = "run"
          /\ \A s \in Symbols : \A r \in Readings :
                 s = cur => generate_signals(s, r)' = generate_signals(s, r)
      ]_vars

\* a live submission has just failed while a Position was open on the symbol
\* or could have been opened
C16_Witness ==
    /\ mode = "live"
    /\ pc = "run"
    /\ call = Call("send_order", FALSE)

\* C17: when _final_cleanup has returned no Position is open, also after a
\* broker submission failed during the sweep.
C17_NoPositionAfterCleanup ==
    pc = "done" => \A s \in Symbols : ~has_position(s)

in_loop == pc \in {"run", "generate", "execute"}

\* C18: every way the trading loop ends (market close, daily target or loss
\* stop, keyboard interrupt, unexpected exception) starts _final_cleanup, and
\* the process exits only from _final_cleanup: no step takes the bot from its
\* loop to the exit.
C18_EveryExitRunsSweep ==
    [][/\ (in_loop /\ ~in_loop') => (sweeping' /\ swept' = {})
       /\ (pc # "done" /\ pc' = "done") => sweeping
      ]_vars

\* the sweep called by an except branch of main() has handled a Position
C18_Witness ==
    /\ pc = "handler_cleanup"
    /\ swept # {}

\* C19: in both modes run() leaves its loop at the latest one iteration after
\* check_daily_targets() has become false: no new iteration of the loop starts
\* while it is false.
C19_NoIterationAfterDailyStop ==
    [][(pc = "run" /\ pc' = "run" /\ loop_at # 1 /\ loop_at' = 1)
       => check_daily_targets
      ]_vars

\* C20: in backtest mode the poll loop's generate_signals never reads the bar
\* series of a symbol that the feed thread is finalizing: not with the new bar
\* appended and the series not yet pruned, nor with the indicator columns not
\* yet recomputed.
C20_DecisionNeverReadsMidFinalization ==
    [][(pc = "generate" /\ pc' # "generate")
       => ~(feed.at \in {"appended", "pruned"} /\ feed.symbol = cur)
      ]_vars

(***************************************************************************)
(* The two decision paths of backtest mode                                 *)
(***************************************************************************)
\* C21: with the feed thread and the poll loop both deciding and executing,
\* no BUY is executed on a symbol whose Position is open: an open_position
\* call that takes effect finds no open Position on its symbol, so no Position
\* is overwritten and available_cash is debited once per open Position.
C21_NoBuyOnOpenPosition ==
    [][\A s \in Symbols :
          (call' = Call("open_position", TRUE) /\ positions'[s] # positions[s])
          => ~has_position(s)
      ]_vars

below_by_pct(price, pct) == Rat(price * (100 * pct.den - pct.num), 100 * pct.den)

above_by_pct(price, pct) == Rat(price * (100 * pct.den + pct.num), 100 * pct.den)

\* C26: in percent mode (no positive ATR) an open_position call that takes
\* effect records the quantity floor(capital * max_position_pct / price), the
\* stop-loss price * (1 - stop_loss_pct/100) and the take-profit
\* price * (1 + take_profit_pct/100), the levels calculate_position_size
\* returns; at price 100 these are 99 and 101.5.
C26_PercentSizing ==
    [][\A s \in Symbols : \A p \in Prices :
          (/\ RMOpen(s, p)
           /\ ~(get_latest_atr(s) > 0)
           /\ call' = Call("open_position", TRUE))
          => /\ calculate_position_size(s, p).ok
             /\ calculate_position_size(s, p).qty
                    = (capital * max_position_pct.num) \div (max_position_pct.den * p)
             /\ positions'[s].quantity = calculate_position_size(s, p).qty
             /\ positions'[s].entry_price = p
             /\ RatEq(positions'[s].stop_loss_price, below_by_pct(p, stop_loss_pct))
             /\ RatEq(positions'[s].take_profit_price, above_by_pct(p, take_profit_pct))
             /\ p = 100 => /\ RatEq(positions'[s].stop_loss_price, Rat(99, 1))
                           /\ RatEq(positions'[s].take_profit_price, Rat(203, 2))
      ]_vars

\* TEST, which has no ATR, was opened at 100 with 5 shares, stop-loss 99 and
\* take-profit 101.5
C26_Witness ==
    /\ call = Call("open_position", TRUE)
    /\ has_position("TEST")
    /\ positions["TEST"].entry_price = 100
    /\ positions["TEST"].quantity = 5
    /\ RatEq(positions["TEST"].stop_loss_price, Rat(99, 1))
    /\ RatEq(positions["TEST"].take_profit_price, Rat(203, 2))

(***************************************************************************)
(* Retention                                                               *)
(***************************************************************************)
\* the latest timestamp of a non-empty series
latest_bar_time(bars) ==
    CHOOSE t \in {bars[i].timestamp : i \in 1..Len(bars)} :
        \A i \in 1..Len(bars) : bars[i].timestamp <= t

\* the number of bars of the series equal to b
copies(bars, b) == Cardinality({i \in 1..Len(bars) : bars[i] = b})

\* C30: after every finalization the bars retained for the symbol are exactly
\* those of the series (the bars before, and the bars just appended) within
\* the last 3 * max(ema_long_period, rsi_period, bb_period) minutes of the
\* latest bar: no retained bar is older, and no bar inside the window is lost.
C30_RetainedBarsAreTheWindow ==
    [][\A t \in URTicks :
          (URUpdateRealtime("TEST", t)
           /\ historical_data'["TEST"] # historical_data["TEST"])
          => LET series == historical_data["TEST"]
                               \o due_bars(real_time_buffer["TEST"], last_timestamp["TEST"])
                 kept == historical_data'["TEST"]
                 window_start == latest_bar_time(series) - 3 * min_bars * Minute
             IN  /\ kept # <<>>
                 /\ latest_bar_time(kept) = latest_bar_time(series)
                 /\ \A i \in 1..Len(kept) : kept[i].timestamp >= window_start
                 /\ \A i \in 1..Len(series) :
                        IF series[i].timestamp >= window_start
                        THEN copies(kept, series[i]) = copies(series, series[i])
                        ELSE copies(kept, series[i]) = 0
      ]_vars

\* the bars of minutes 0 and 1 were discarded when the bar of minute 8 was
\* finalized; the bar of minute 2, at the edge of the window, was kept
C30_Witness ==
    /\ Len(historical_data["TEST"]) = 2
    /\ bar_timestamps("TEST")[1] = 2 * Minute
    /\ bar_timestamps("TEST")[2] = 8 * Minute

\* C27: in ATR mode the size is floor(capital * max_position_pct /
\* (ATR * atr_stop_multiplier)) with the stop at price - ATR * stop
\* multiplier and the target at price + ATR * take multiplier; Scenario B:
\* ATR 2, multipliers 1 and 2, max_position_pct 0.1, capital 1000 and price
\* 100 give quantity 50, stop 98 and target 104.
C27_ScenarioBSizing ==
    (/\ capital = 1000 /\ available_cash = 1000
     /\ RatEq(max_position_pct, Rat(1, 10))
     /\ get_latest_atr("AAPL") = 2)
    => LET size_info == calculate_position_size("AAPL", 100) IN
       /\ size_info.ok
       /\ size_info.qty = 50
       /\ RatEq(size_info.sl_price, Rat(98, 1))
       /\ RatEq(size_info.tp_price, Rat(104, 1))

\* C28: opening a position with an explicit quantity records exactly that
\* quantity and takes price * quantity from the available cash.
C28_OpenTakesRequestedQuantity ==
    [][\A s \in Symbols, q \in RequestedQuantities :
          APIOpenQuantity(s, 100, q)
          => /\ has_position(s)'
             /\ positions'[s].quantity = q
             /\ available_cash' = available_cash - 100 * q]_vars

\* C29: whenever the capital is down on the day's starting capital by
\* daily_max_loss_pct percent or more, check_daily_targets says stop.
C29_StopAtDailyMaxLoss ==
    capital * 100 <= daily_starting_capital * (100 - daily_max_loss_pct)
    => ~check_daily_targets

\* C23: when the scorer raises or no ai_client is configured the predicted
\* return is 0, no AI trigger fires, and the decision is the one the
\* indicator triggers and the position state give.
C23_NoScorerIsNeutral ==
    [][\A ind \in IndicatorReadings, a \in ScorerReadings :
          (ai_client \in {"none", "raises"} /\ SigGenerate("TEST", ind, a))
          => sig' = generate_signals("TEST", ind)]_vars

\* C24: a hook that raises is caught and skipped: every hook of both lists
\* is invoked in registration order, generate_signals does not raise and it
\* returns the decision it returns with no hook registered.
C24_RaisingHookIsSkipped ==
    [][\A ind \in IndicatorReadings, a \in ScorerReadings :
          SigGenerate("TEST", ind, a)
          => /\ call'.applied
             /\ \A h \in HookNames :
                    hook_events(trail', h) = in_registration_order(h)
             /\ sig' = generate_signals("TEST", [ind EXCEPT !.ai = predicted_return(a)])]_vars

\* a call with a raising hook ahead of another one has invoked both and
\* returned a decision other than HOLD
C24_Witness ==
    /\ call = Call("generate_signals", TRUE)
    /\ \E h \in HookNames :
           /\ plugins[h] = <<"raises", "returns">>
           /\ hook_events(trail, h) = << <<h, 1>>, <<h, 2>> >>
    /\ sig.signal = "BUY"

bars_due_on(symbol, tick) ==
    IF last_timestamp[symbol] # NoneTs
       /\ floor_to_minute(tick.datetime) > last_timestamp[symbol]
    THEN due_bars(real_time_buffer[symbol], last_timestamp[symbol])
    ELSE <<>>

\* bar k of the series is more than one minute after the bar before it
gap_before(series, k) ==
    k >= 2 /\ series[k].timestamp - series[k - 1].timestamp > Minute

\* C31: when a finalized bar's minute is more than one minute after the
\* previous bar's minute, a gap warning is emitted, the bar is appended all
\* the same and no bar is made up for the missing minutes (the series is the
\* old bars and the finalized ones); the call after one that warned still
\* finalizes, appends and recomputes as any other.
C31_GapWarnsAndGoesOn ==
    [][\A t \in GapTicks :
          URUpdateRealtime("TEST", t)
          => LET hist == historical_data["TEST"]
                 series == hist \o bars_due_on("TEST", t)
             IN  /\ (\E k \in (Len(hist) + 1)..Len(series) : gap_before(series, k))
                    => /\ "gap" \in warnings'
                       /\ historical_data'["TEST"] = series
                 /\ "gap" \in warnings
                    => /\ IF floor_to_minute(t.datetime) > last_timestamp["TEST"]
                          THEN finalized_up_to_marker("TEST", t)
                          ELSE only_buffered("TEST", t)
                       /\ atr_column'["TEST"] = NaN]_vars

\* the bar of minute 4 follows the bar of minute 1 (a three-minute gap, no
\* bar for minutes 2 and 3), and the bar of minute 5 was appended after it
\* by a later call that raised no warning
C31_Witness ==
    /\ bar_timestamps("TEST") = <<0, 1 * Minute, 4 * Minute, 5 * Minute>>
    /\ last_timestamp["TEST"] = 6 * Minute
    /\ warnings = {}

(***************************************************************************)
(* Equity curve and capital                                                *)
(***************************************************************************)
\* the sum of pnl over the first n TradeRecords
RECURSIVE pnl_sum(_)
pnl_sum(n) == IF n = 0 THEN 0 ELSE pnl_sum(n - 1) + trade_history[n].pnl

\* C32: get_equity_curve is daily_starting_capital followed by the
\* equity_after of every TradeRecord in close order, each equity_after is the
\* capital right after that close (the starting capital plus the pnl so
\* far), so capital = daily_starting_capital + the sum of all pnl and the
\* last point of the curve is the capital.
C32_EquityCurveFollowsCapital ==
    LET e == equities_of(get_equity_curve)
        n == Len(trade_history)
    IN  /\ Len(e) = n + 1
        /\ e[1] = daily_starting_capital
        /\ \A i \in 1..n :
               /\ e[i + 1] = trade_history[i].equity_after
               /\ trade_history[i].equity_after = daily_starting_capital + pnl_sum(i)
        /\ capital = daily_starting_capital + pnl_sum(n)
        /\ e[Len(e)] = capital

\* two closes, a gain and then a loss that leaves the capital between the
\* start and the peak: close order is not equity order
C32_Witness ==
    /\ Len(trade_history) = 2
    /\ trade_history[1].pnl > 0
    /\ trade_history[2].pnl < 0
    /\ capital > daily_starting_capital
    /\ equities_of(get_equity_curve)
           = <<daily_starting_capital, trade_history[1].equity_after, capital>>

(***************************************************************************)
(* Live and simulated modes                                                *)
(***************************************************************************)
\* what simulated mode does to the ledger for a decision
simulated_step(signal, symbol) ==
    IF signal.signal = "BUY"
    THEN open_position(symbol, signal.price)
    ELSE IF signal.signal \in {"SELL", "SELL_SL", "SELL_TP"}
    THEN close_position(symbol, signal.price)
    ELSE no_call

doubling(waits) == \A k \in 1..Len(waits) : waits[k] = 2 ^ (k - 1)

C34_PredictNeverRaises ==
    /\ predict_frame.at # "raised"
    /\ Len(predict_frame.posted) <= max_attempts
    /\ doubling(predict_frame.slept)
    /\ (predict_frame.at = "returned"
        /\ \A k \in 1..Len(predict_frame.posted) : predict_frame.posted[k] # "200")
       => predict_frame.result = "0.0"

(***************************************************************************)
(* C35: between any two consecutive SendOrder invocations made through     *)
(* send_order or cancel_order the rate-limit wait has been performed,      *)
(* whether the earlier invocation was acknowledged or raised; and a        *)
(* submission that failed ends as a raise in its caller.                   *)
(***************************************************************************)
C35_SendOrdersSpaced ==
    /\ \A i \in 1..Len(wire) : \A j \in (i + 1)..Len(wire) :
           (wire[i].op = "SendOrder" /\ wire[j].op = "SendOrder")
           => \E k \in (i + 1)..(j - 1) : wire[k].op = "sleep"
    /\ (wire # <<>> /\ wire[Len(wire)].raised) => ~call.applied

(***************************************************************************)
(* C36: on the tick path a decision (generate_signals, then execute_order) *)
(* is triggered only by a tick that finalized a new 1-minute bar; a tick   *)
(* that adds to the open minute or finalizes nothing triggers none.        *)
(***************************************************************************)
C36_DecisionOnlyOnNewBar ==
    [][\A t \in RunTicks :
           (RunOnTick("AAPL", t) /\ pc' = "generate")
           => historical_data'["AAPL"] # historical_data["AAPL"]]_vars

(***************************************************************************)
(* C37: on one thread, available_cash is the capital less the cost         *)
(* (entry_price x quantity) of the open Positions; it equals the capital   *)
(* when no Position is open, and it is never negative.                     *)
(***************************************************************************)
open_cost(symbol) ==
    IF positions[symbol].present /\ positions[symbol].is_open
    THEN positions[symbol].entry_price * positions[symbol].quantity
    ELSE 0

at_loss_limit == RatLeq(Rat(daily_max_loss_pct, 100), get_current_drawdown)

\* what get_current_drawdown returned when trade_history held its first n
\* TradeRecords (the list is only appended to, the starting capital is fixed)
drawdown_after(n) == drawdown_of(equity_curve_of(SubSeq(trade_history, 1, n)))

C38_DrawdownLatch ==
    /\ [][/\ SubSeq(trade_history', 1, Len(trade_history)) = trade_history
          /\ daily_starting_capital' = daily_starting_capital]_vars
    /\ [](/\ drawdown_after(Len(trade_history)) = get_current_drawdown
          /\ \A n \in 0..Len(trade_history) : \A m \in n..Len(trade_history) :
                 RatLeq(drawdown_after(n), drawdown_after(m))
          /\ at_loss_limit
             => /\ ~check_daily_targets
                /\ \A s \in Symbols, p \in Prices : ~can_open_position(s, p))

C38_Witness ==
    /\ Len(trade_history) = 2
    /\ trade_history[1].pnl < 0
    /\ trade_history[2].pnl > 0
    /\ trade_history[2].equity_after > trade_history[1].equity_after
    /\ at_loss_limit
    /\ ~check_daily_targets

(***************************************************************************)
(* C39: once _final_cleanup has started no new Position is opened: the     *)
(* feed thread of simulated mode executes no BUY during or after the       *)
(* sweep, and no Position is open when run() returns.                      *)
(***************************************************************************)
C39_NoOpenOnceSweeping ==
    /\ [][(sweeping \/ pc = "done")
          => \A s \in Symbols : has_position(s)' => has_position(s)]_vars
    /\ [](pc = "done" => \A s \in Symbols : ~has_position(s))

(***************************************************************************)
(* C40: every ingested tick is held in exactly one place, the bucket of    *)
(* its minute or one finalized bar: over a call of update_realtime the     *)
(* buckets that stay keep their ticks, a bucket leaves the buffer exactly  *)
(* when it is finalized into a bar, and the volume of the bars produced    *)
(* (before pruning) plus the buffered volume grows by the tick's volume.   *)
(***************************************************************************)
buffered_volume(buff) ==
    seq_sum([i \in 1..Len(buff) |-> volume_of(buff[i].ticks, Len(buff[i].ticks))])

minutes_of(buff) == {buff[i].minute_ts : i \in 1..Len(buff)}

C40_TickConservation ==
    [][\A t \in URTicks :
          URUpdateRealtime("TEST", t) =>
              LET before == real_time_buffer["TEST"]
                  after == real_time_buffer'["TEST"]
                  marker == last_timestamp["TEST"]
                  hist == historical_data["TEST"]
                  finalizing == marker # NoneTs /\ floor_to_minute(t.datetime) > marker
                  held == tick_buffered(before, t)
                  gone == SelectSeq(held, LAMBDA b : b.minute_ts \notin minutes_of(after))
                  produced == [i \in 1..Len(gone) |->
                                  new_bar(gone[i].minute_ts, gone[i].ticks)]
              IN  /\ after = SelectSeq(held, LAMBDA b : b.minute_ts \in minutes_of(after))
                  /\ \A i \in 1..Len(held) : \A j \in 1..Len(held) :
                         held[i].minute_ts = held[j].minute_ts => i = j
                  /\ \A i \in 1..Len(held) :
                         held[i].minute_ts \notin minutes_of(after)
                         <=> (finalizing /\ held[i].minute_ts <= marker)
                  /\ historical_data'["TEST"] = prune_old_bars(hist \o produced)
                  /\ \A i \in 1..Len(produced) :
                         produced[i].volume = volume_of(gone[i].ticks, Len(gone[i].ticks))
                  /\ buffered_volume(after) + seq_sum([i \in 1..Len(produced) |->
                                                          produced[i].volume])
                         = buffered_volume(before) + t.volume]_vars

\* two ticks of one minute went into one bar when the tick of a later minute
\* arrived, and that tick is the one still buffered
C40_Witness ==
    /\ ingested = 3
    /\ Len(real_time_buffer["TEST"]) = 1
    /\ buffered_volume(real_time_buffer["TEST"]) = 2
    /\ \E i \in 1..Len(historical_data["TEST"]) :
           historical_data["TEST"][i].volume = 5

====
